---------------------------- MODULE Spec2Model ----------------------------
(***************************************************************************)
(* A model of the terminal simulation engine of game-off-2016:             *)
(* src/terminal.py (Terminal, CommandHistory, CountdownTimer) and the host *)
(* loop of src/gameplay.py, with the data editor of                        *)
(* src/programs/hexedit.py (HexEditor) as one of the registered programs.  *)
(* The other programs are modelled by the contract the terminal relies on. *)
(*                                                                         *)
(* Text is modelled as a sequence of string tokens: what the player types  *)
(* is one token per character, a fixed message of the code is one token,   *)
(* and str.format / + are concatenation of token sequences.  Python's None *)
(* is the empty tuple and a present value x is the one-element tuple <<x>>.*)
(***************************************************************************)
EXTENDS Integers, Sequences, FiniteSets, TLC

VARIABLES
    time,               \* Timer.time: elapsed, unpaused milliseconds
    paused,             \* Timer.paused
    locked,             \* Terminal.locked
    current_line,       \* Terminal._current_line
    buf,                \* Terminal._buf, newest line first
    history,            \* CommandHistory._history, newest command first
    pos,                \* CommandHistory._pos
    saved_line,         \* CommandHistory._saved_line
    countdown,          \* Terminal._countdown_timer: timeleft, flash_start, flash_times
    freeze_start,       \* Terminal._freeze_start
    freeze_time,        \* Terminal._freeze_time
    rebooting,          \* Terminal._rebooting
    reboot_update_time, \* Terminal._reboot_update_time
    reboot_buf,         \* Terminal._reboot_buf
    held_key,           \* Terminal._held_key
    key_last_repeat,    \* Terminal._key_last_repeat
    current_program,    \* Terminal._current_program
    prog_completed,     \* completed() of each registered program
    prog_exited,        \* exited() of each registered program
    text_colour,        \* Terminal._TEXT_COLOUR
    hex,                \* the HexEditor instance: its fields and its row lists
    random,             \* the state of the random module
    raised,             \* the exception that ended the process, None while it runs
    programs,           \* Terminal._programs: the commands of the level, in its order
    calls,              \* history variable: the last handler and the methods it called
    lines_output        \* history variable: the lines handed to Terminal.output

vars == <<time, paused, locked, current_line, buf, history, pos, saved_line,
          countdown, freeze_start, freeze_time, rebooting, reboot_update_time,
          reboot_buf, held_key, key_last_repeat, current_program,
          prog_completed, prog_exited, text_colour, hex, random, raised,
          programs, calls, lines_output>>


---------------------------------------------------------------------------
(* Python values *)

None == <<>>
Some(x) == <<x>>
Val(o) == o[1]

Min(a, b) == IF a < b THEN a ELSE b

\* seq[:n]
Take(s, n) == SubSeq(s, 1, Min(n, Len(s)))

\* str.startswith
StartsWith(s, p) == Len(p) <= Len(s) /\ SubSeq(s, 1, Len(p)) = p

\* deque(maxlen=n).appendleft(x): the new item goes to the left, and an item
\* falls off the right end when the deque is full.
AppendLeft(d, x, maxlen) == Take(<<x>> \o d, maxlen)

---------------------------------------------------------------------------
(* Program constants *)

BUF_SIZE == 100
HISTORY_SIZE == 50
TIMER_WARNING_SECS == 30
VISIBLE_LINES == 29
KEY_REPEAT_DELAY == 50
KEY_REPEAT_INITIAL_DELAY == 500
PAUSE_LEN == 20
FLASH_TIME == 3000


---------------------------------------------------------------------------
(* Text: str methods on token sequences *)

Digits == <<"0", "1", "2", "3", "4", "5", "6", "7", "8", "9">>

\* The position of character c in the ordered alphabet s, 0 when it is absent.
RECURSIVE IndexOf(_, _)
IndexOf(s, c) ==
    IF s = <<>> THEN 0
    ELSE IF s[Len(s)] = c THEN Len(s) ELSE IndexOf(SubSeq(s, 1, Len(s) - 1), c)

\* str.lstrip(): the only whitespace the terminal accepts is the space.
RECURSIVE LStrip(_)
LStrip(s) == IF s # <<>> /\ s[1] = " " THEN LStrip(Tail(s)) ELSE s

\* str.rstrip()
RECURSIVE RStrip(_)
RStrip(s) ==
    IF s # <<>> /\ s[Len(s)] = " " THEN RStrip(SubSeq(s, 1, Len(s) - 1)) ELSE s

\* str.split(" "): the pieces between single spaces, empty pieces kept.
RECURSIVE SplitFrom(_, _)
SplitFrom(s, piece) ==
    IF s = <<>> THEN <<piece>>
    ELSE IF s[1] = " " THEN <<piece>> \o SplitFrom(Tail(s), <<>>)
    ELSE SplitFrom(Tail(s), Append(piece, s[1]))

Split(s) == SplitFrom(s, <<>>)

\* ", ".join(parts) and "  ".join(parts): parts are token sequences.
RECURSIVE Join(_, _)
Join(parts, sep) ==
    IF parts = <<>> THEN <<>>
    ELSE IF Len(parts) = 1 THEN parts[1]
    ELSE parts[1] \o <<sep>> \o Join(Tail(parts), sep)

\* The digits of an int() argument: an optional sign, then digits only.
Unsigned(a) == IF a # <<>> /\ a[1] \in {"+", "-"} THEN Tail(a) ELSE a

\* Whether int(a) returns (TRUE) or raises ValueError (FALSE).
IsInt(a) ==
    /\ Unsigned(a) # <<>>
    /\ \A i \in 1..Len(Unsigned(a)) : IndexOf(Digits, Unsigned(a)[i]) # 0

RECURSIVE DigitsValue(_)
DigitsValue(d) ==
    IF d = <<>> THEN 0
    ELSE 10 * DigitsValue(SubSeq(d, 1, Len(d) - 1)) + (IndexOf(Digits, d[Len(d)]) - 1)

\* int(a), for an a with IsInt(a)
ParseInt(a) ==
    IF a[1] = "-" THEN 0 - DigitsValue(Unsigned(a)) ELSE DigitsValue(Unsigned(a))

---------------------------------------------------------------------------
(* CountdownTimer *)

\* CountdownTimer.__init__
CountdownInit(time_in_s, warning_secs) ==
    [timeleft    |-> time_in_s * 1000,
     flash_start |-> None,
     flash_times |-> <<warning_secs, 15, 5, 4, 3, 2, 1>>]

\* CountdownTimer.secs_left
secs_left(cd) == cd.timeleft \div 1000

\* CountdownTimer.ended
ended(cd) == cd.timeleft <= 0

StripFlashTimesKeep(times, secs) == times

\* The loop of update(): "keep stripping until we reach a time larger than
\* current".
RECURSIVE StripFlashTimes(_, _)
StripFlashTimes(times, secs) ==
    IF Len(times) > 0 /\ secs <= times[1]
    THEN StripFlashTimes(Tail(times), secs)
    ELSE times

\* update() without the clamp at zero
CountdownUpdateNoClamp(cd, ms) ==
    [cd EXCEPT !.timeleft = cd.timeleft - ms,
               !.flash_start = IF cd.timeleft - ms <= 0 THEN None ELSE @]

\* update() that strips one threshold per call, whether or not a flash
\* window is open
CountdownUpdateOneStep(cd, ms) ==
    LET left == cd.timeleft - ms IN
    IF left <= 0
    THEN [cd EXCEPT !.timeleft = 0, !.flash_start = None]
    ELSE IF Len(cd.flash_times) > 0 /\ left \div 1000 <= cd.flash_times[1]
         THEN [timeleft    |-> left,
               flash_start |-> Some(left),
               flash_times |-> Tail(cd.flash_times)]
         ELSE [cd EXCEPT !.timeleft = left]

\* CountdownTimer.update
CountdownUpdate(cd, ms) ==
    LET left == cd.timeleft - ms IN
    IF left <= 0
    THEN [cd EXCEPT !.timeleft = 0, !.flash_start = None]
    ELSE LET \* Should we end current flash time?
             flash == IF /\ cd.flash_start # None
                         /\ Val(cd.flash_start) - left > FLASH_TIME
                      THEN None
                      ELSE cd.flash_start
             secs == left \div 1000
         IN  \* Should we start a new flash time?
             IF /\ flash = None
                /\ Len(cd.flash_times) > 0
                /\ secs <= cd.flash_times[1]
             THEN [timeleft    |-> left,
                   flash_start |-> Some(left),
                   flash_times |-> StripFlashTimes(cd.flash_times, secs)]
             ELSE [timeleft    |-> left,
                   flash_start |-> flash,
                   flash_times |-> cd.flash_times]

---------------------------------------------------------------------------
(* CommandHistory: functions of the terminal state record s *)

add_commandAlways(s, cmd) ==
    [s EXCEPT !.history = AppendLeft(s.history, cmd, HISTORY_SIZE)]

\* CommandHistory.add_command
add_command(s, cmd) ==
    IF Len(s.history) = 0 \/ s.history[1] # cmd
    THEN [s EXCEPT !.history = AppendLeft(s.history, cmd, HISTORY_SIZE)]
    ELSE s

\* CommandHistory.reset_navigation
reset_navigation(s) == [s EXCEPT !.pos = -1]

\* Terminal.set_current_line
set_current_line(s, line) == [s EXCEPT !.current_line = line]

\* navigate() that saves the draft on every upward step
navigateSaveAlways(s, up) ==
    IF up
    THEN IF s.pos + 1 < Len(s.history)
         THEN [s EXCEPT !.saved_line = Some(s.current_line),
                        !.pos = s.pos + 1,
                        !.current_line = s.history[s.pos + 2]]
         ELSE s
    ELSE IF s.pos > 0
         THEN [s EXCEPT !.pos = s.pos - 1, !.current_line = s.history[s.pos]]
         ELSE IF s.pos = 0
              THEN [s EXCEPT !.pos = -1, !.current_line = Val(s.saved_line)]
              ELSE s

\* CommandHistory.navigate.  history[i] of the code is history[i + 1] here.
navigate(s, up) ==
    IF up
    THEN IF s.pos + 1 < Len(s.history)
         THEN LET saved == IF s.pos = -1 THEN Some(s.current_line)
                           ELSE s.saved_line
              IN  [s EXCEPT !.saved_line = saved,
                            !.pos = s.pos + 1,
                            !.current_line = s.history[s.pos + 2]]
         ELSE s
    ELSE IF s.pos > 0
         THEN [s EXCEPT !.pos = s.pos - 1, !.current_line = s.history[s.pos]]
         ELSE IF s.pos = 0
              THEN \* Restore saved line
                   [s EXCEPT !.pos = -1, !.current_line = Val(s.saved_line)]
              ELSE s

---------------------------------------------------------------------------
(* The level: the programs registered with the terminal, in the order of  *)
(* the level's dictionary, and their prerequisites.                        *)

CmdA  == <<"a">>
CmdB  == <<"b">>
CmdHe == <<"h", "e">>
\* The command of the data editor, HexEditor
CmdHex == <<"x">>

LevelPrograms == <<CmdA, CmdB, CmdHe, CmdHex>>

Programs == {LevelPrograms[i] : i \in 1..Len(LevelPrograms)}

\* depends.get(cmd): None, or the list of prerequisite commands
LevelDepends(cmd) == IF cmd = CmdHe THEN Some(<<CmdA, CmdB>>) ELSE None

\* The time budget of the level, in seconds: the boot banner, played at a
\* line per frame of a second, leaves one second to play
LevelTime == 30

---------------------------------------------------------------------------
(* The program contract.  A registered program is known to the terminal    *)
(* by completed(), exited(), its attributes and the methods below; what a  *)
(* method decides is an input of the handler that calls it (outcome).      *)

security_type(c) ==
    IF c = CmdA THEN "password"
    ELSE IF c \in {CmdB, CmdHex} THEN "software lock" ELSE "door"

\* "{} already completed!".format(security_type).capitalize()
AlreadyCompletedLine(c) ==
    IF c = CmdA THEN <<"Password already completed!">>
    ELSE IF c \in {CmdB, CmdHex} THEN <<"Software lock already completed!">>
    ELSE <<"Door already completed!">>

help(c) ==
    IF c = CmdHex THEN <<"Modify raw software data.">>
    ELSE <<"help of ", security_type(c)>>

success_syslog(c) == <<"success: ", security_type(c)>>

\* The prompt of a program, None to show the input line bare
prompt(c) == IF c = CmdB THEN None ELSE Some(<<security_type(c), "> ">>)

allow_ctrl_c(c) == c # CmdA

is_graphical(c) == c = CmdA

intercept_keypress(c) == FALSE

suppress_success(c) == c = CmdA

\* How long a program freezes the terminal when the player fails
PROGRAM_FREEZE_TIME == 5000

Outcomes == {"continue", "bad_input", "success", "failure"}

Called(s, method, c) == [s EXCEPT !.calls = Append(@, <<method, c>>)]

---------------------------------------------------------------------------
(* HexEditor: the instance and its data.  A Python list is an object:     *)
(* rows is the store of the row lists that _generate_data made, and        *)
(* _start_data and _end_data are lists of references into it.              *)

HexDigits == Digits \o <<"a", "b", "c", "d", "e", "f">>

UpperCase == <<"A", "B", "C", "D", "E", "F", "G", "H", "I", "J", "K", "L", "M",
               "N", "O", "P", "Q", "R", "S", "T", "U", "V", "W", "X", "Y", "Z">>
LowerCase == <<"a", "b", "c", "d", "e", "f", "g", "h", "i", "j", "k", "l", "m",
               "n", "o", "p", "q", "r", "s", "t", "u", "v", "w", "x", "y", "z">>

\* str.lower()
Lower(line) ==
    [i \in 1..Len(line) |->
        IF IndexOf(UpperCase, line[i]) # 0
        THEN LowerCase[IndexOf(UpperCase, line[i])] ELSE line[i]]

\* Whether int(a, 16) returns (TRUE) or raises ValueError (FALSE), for an
\* a without the 0x prefix
IsHexInt(a) ==
    /\ Unsigned(a) # <<>>
    /\ \A i \in 1..Len(Unsigned(a)) : IndexOf(HexDigits, Unsigned(a)[i]) # 0

RECURSIVE HexDigitsValue(_)
HexDigitsValue(d) ==
    IF d = <<>> THEN 0
    ELSE 16 * HexDigitsValue(SubSeq(d, 1, Len(d) - 1))
         + (IndexOf(HexDigits, d[Len(d)]) - 1)

\* int(a, 16), for an a with IsHexInt(a)
ParseHexInt(a) ==
    IF a[1] = "-" THEN 0 - HexDigitsValue(Unsigned(a))
    ELSE HexDigitsValue(Unsigned(a))

\* "{}".format(n), for a row number
FormatRow(n) == Digits[n + 1]

\* "{:#04x}".format(v), for the value of a generated cell
FormatCell(v) == "0x" \o HexDigits[(v \div 16) + 1] \o HexDigits[(v % 16) + 1]

MIN_FILE_LENGTH == 3
MAX_FILE_LENGTH == 5
\* The length of _generate_random_line()
LINE_LENGTH == 6

\* The tables _generate_data() returns in this model, one per state of the
\* random module: MIN_FILE_LENGTH or MAX_FILE_LENGTH - 1 rows of cells
\* below 0x10.
HexTables ==
    << << <<7, 1, 2, 3, 4, 5>>, <<8, 1, 1, 1, 1, 1>>, <<15, 9, 9, 9, 9, 9>> >>,
       << <<2, 5, 9, 4, 4, 4>>, <<9, 3, 0, 3, 3, 3>>, <<7, 7, 7, 7, 7, 2>> >>,
       << <<7, 1, 2, 3, 4, 5>>, <<1, 6, 6, 6, 6, 6>>, <<8, 8, 8, 8, 8, 8>>,
          <<9, 1, 1, 1, 1, 0>> >> >>

\* HexEditor.__init__
HexEditorInit ==
    [completed |-> FALSE, row |-> 0, col |-> 0, state |-> "QUERY_ROW",
     start_data |-> <<>>, end_data |-> <<>>, rows |-> <<>>,
     \* history: the table of the last start(), and the cells overwritten since
     generated |-> <<>>, writes |-> 0]

\* self._start_data[row][col]; row and col count from 0
StartCell(h, row, col) == h.rows[h.start_data[row + 1]][col + 1]

\* self._end_data[row][col]
EndCell(h, row, col) == h.rows[h.end_data[row + 1]][col + 1]

\* self._start_data and self._end_data as tables of values
StartTable(h) == [i \in 1..Len(h.start_data) |-> h.rows[h.start_data[i]]]
EndTable(h) == [i \in 1..Len(h.end_data) |-> h.rows[h.end_data[i]]]

\* HexEditor.prompt
hex_prompt(h) ==
    IF h.state = "QUERY_ROW"
    THEN Some(<<"Edit line ", FormatRow(h.row), "? (y/n)">>)
    ELSE IF h.state = "ENTER_COL"
    THEN Some(<<"Edit col num: ">>)
    ELSE IF h.state = "ENTER_VAL"
    THEN Some(<<"Change ", FormatCell(StartCell(h, h.row, h.col)),
                " to (leave empty to cancel): ">>)
    ELSE None

\* program.completed()
completed(s, c) == IF c = CmdHex THEN s.hex.completed ELSE s.prog_completed[c]

\* program.exited()
exited(s, c) ==
    IF c = CmdHex THEN s.hex.state = "FINISHED" ELSE s.prog_exited[c]

\* program.prompt
program_prompt(s, c) == IF c = CmdHex THEN hex_prompt(s.hex) ELSE prompt(c)

---------------------------------------------------------------------------
(* Terminal: functions of the terminal state record s *)

PROMPT == <<"$ ">>

\* Terminal.get_current_line
get_current_line(s, include_prompt) ==
    IF include_prompt
    THEN LET p == IF s.current_program # None
                  THEN program_prompt(s, Val(s.current_program))
                  ELSE Some(PROMPT)
         IN  IF p = None THEN s.current_line ELSE Val(p) \o s.current_line
    ELSE s.current_line

\* Terminal._reset_prompt
reset_prompt(s) == [s EXCEPT !.current_line = <<>>]

\* _add_to_buf that appends on the right: oldest first
RECURSIVE add_to_bufRight(_, _)
add_to_bufRight(s, lines) ==
    IF lines = <<>> THEN s
    ELSE add_to_bufRight(
             [s EXCEPT !.buf = IF Len(@) = BUF_SIZE THEN Append(Tail(@), lines[1])
                               ELSE Append(@, lines[1])],
             Tail(lines))

\* Terminal._add_to_buf
RECURSIVE add_to_buf(_, _)
add_to_buf(s, lines) ==
    IF lines = <<>> THEN s
    ELSE add_to_buf([s EXCEPT !.buf = AppendLeft(@, lines[1], BUF_SIZE)],
                    Tail(lines))

\* Terminal.output
output(s, lines) == add_to_buf(s, lines)

\* Terminal.freeze
freeze(s, t) == [s EXCEPT !.freeze_start = Some(s.time), !.freeze_time = Some(t)]

\* Terminal.reduce_time
reduce_time(s, secs) ==
    [s EXCEPT !.countdown = CountdownUpdate(s.countdown, secs * 1000)]

\* raise e
Raise(s, e) == [s EXCEPT !.raised = Some(e)]

\* program.BadInput(reason)
BadInput(reason) == <<"BadInput", reason>>

\* The ValueError of unpacking a list of three values into four names
UnpackError == <<"ValueError", "not enough values to unpack (expected 4, got 3)">>

\* TerminalProgram.failure_prefix
failure_prefix == "failure: "

\* HexEditor._output_data
hex_output_data(s) ==
    LET col_count == Len(s.hex.rows[s.hex.start_data[1]])
        header == <<"   | ">>
                  \o Join([i \in 1..col_count |-> <<"   " \o Digits[i]>>], "  ")
        rule == [i \in 1..(5 + 6 * col_count) |-> "-"]
        row(idx) == <<" " \o Digits[idx] \o " | ">>
                    \o Join([j \in 1..col_count |->
                                <<FormatCell(StartCell(s.hex, idx - 1, j - 1))>>],
                            "  ")
    IN  output(output(s, <<<<"">>, header, rule>>),
               [idx \in 1..Len(s.hex.start_data) |-> row(idx)] \o <<<<"">>>>)

\* start() that leaves the cursor where the attempt before left it
hex_startKeepCursor(s) ==
    LET data == HexTables[s.random]
        start_data == [i \in 1..Len(data) |-> i]
    IN  hex_output_data(
            [s EXCEPT !.hex = [@ EXCEPT !.state = "QUERY_ROW",
                                        !.rows = data,
                                        !.start_data = start_data,
                                        !.end_data = start_data,
                                        !.generated = data,
                                        !.writes = 0],
                      !.random = (@ % Len(HexTables)) + 1])

\* HexEditor.start.  _generate_data() makes the row lists; list(_start_data)
\* is a new list of the same references.
hex_start(s) ==
    LET data == HexTables[s.random]
        start_data == [i \in 1..Len(data) |-> i]
    IN  hex_output_data(
            [s EXCEPT !.hex = [@ EXCEPT !.row = 0, !.col = 0,
                                        !.state = "QUERY_ROW",
                                        !.rows = data,
                                        !.start_data = start_data,
                                        !.end_data = start_data,
                                        !.generated = data,
                                        !.writes = 0],
                      !.random = (@ % Len(HexTables)) + 1])

\* HexEditor._data_correct: what the call raises, or the value it returns.
\* The unpacking of [0, 0, 0] into edits, edited_idx, edited_old and
\* edited_new raises on every call, before the rows are walked.
data_correct(h) == [raised |-> Some(UnpackError), value |-> FALSE]

\* HexEditor._check_finished
check_finished(s) ==
    IF s.hex.row = Len(s.hex.start_data)
    THEN LET finished == [s EXCEPT !.hex.state = "FINISHED"]
             correct == data_correct(finished.hex)
         IN  IF correct.raised # None
             THEN Raise(finished, Val(correct.raised))
             ELSE IF correct.value
             THEN [finished EXCEPT !.hex.completed = TRUE]
             ELSE freeze(output(finished,
                                <<<<failure_prefix,
                                    "corruption detected in system file, repairing!">>>>),
                         PROGRAM_FREEZE_TIME)
    ELSE s

\* HexEditor.text_input, in state ENTER_COL
enter_col(s, line) ==
    IF ~IsInt(line)
    THEN Raise(s, BadInput("Not a number"))
    ELSE LET assigned == [s EXCEPT !.hex.col = ParseInt(line)] IN
         IF \/ assigned.hex.col < 0
            \/ assigned.hex.col >= Len(s.hex.rows[s.hex.start_data[1]])
         THEN Raise(assigned, BadInput("Column out of range"))
         ELSE check_finished([assigned EXCEPT !.hex.state = "ENTER_VAL"])

\* enter_val staying on the row it has just overwritten
enter_valKeepRow(s, line) ==
    IF line = <<>>
    THEN check_finished([s EXCEPT !.hex.state = "QUERY_ROW"])
    ELSE IF ~IsHexInt(line)
    THEN Raise(s, BadInput("Not a number"))
    ELSE check_finished(
             [s EXCEPT !.hex.rows[s.hex.end_data[s.hex.row + 1]][s.hex.col + 1] =
                           ParseHexInt(line),
                       !.hex.writes = @ + 1,
                       !.hex.state = "QUERY_ROW"])

\* HexEditor.text_input, in state ENTER_VAL
enter_val(s, line) ==
    IF line = <<>>
    THEN \* If the user has cancelled, go back to the row query.
         check_finished([s EXCEPT !.hex.state = "QUERY_ROW"])
    ELSE IF ~IsHexInt(line)
    THEN Raise(s, BadInput("Not a number"))
    ELSE check_finished(
             [s EXCEPT !.hex.rows[s.hex.end_data[s.hex.row + 1]][s.hex.col + 1] =
                           ParseHexInt(line),
                       !.hex.writes = @ + 1,
                       !.hex.row = @ + 1,
                       !.hex.state = "QUERY_ROW"])

\* HexEditor.text_input
hex_text_input(s, typed) ==
    \* Remove any leading whitespace and convert to lowercase.
    LET line == Lower(LStrip(typed)) IN
    IF s.hex.state = "QUERY_ROW"
    THEN check_finished(IF StartsWith(line, <<"y">>)
                        THEN [s EXCEPT !.hex.state = "ENTER_COL"]
                        ELSE [s EXCEPT !.hex.row = @ + 1])
    ELSE IF s.hex.state = "ENTER_COL" THEN enter_col(s, line)
    ELSE IF s.hex.state = "ENTER_VAL" THEN enter_val(s, line)
    ELSE check_finished(s)

\* program.start()
start(s, c) ==
    IF c = CmdHex THEN hex_start(Called(s, "start", c))
    ELSE [Called(s, "start", c) EXCEPT !.prog_exited[c] = FALSE]

\* TerminalProgram.on_abort
on_abort(s, c) == Called(s, "on_abort", c)

\* What text_input and on_keypress of a program may do to the terminal and
\* to the program: nothing, finish with success, or finish with a failure
\* message and the freeze penalty.  bad_input leaves the state alone.
ProgramStep(s, c, outcome) ==
    IF outcome = "success"
    THEN [s EXCEPT !.prog_completed[c] = TRUE, !.prog_exited[c] = TRUE]
    ELSE IF outcome = "failure"
    THEN freeze(output([s EXCEPT !.prog_exited[c] = TRUE],
                       <<<<"failure: ", security_type(c)>>>>),
                PROGRAM_FREEZE_TIME)
    ELSE s

\* program.text_input(line): the state after the call
text_input(s, c, line, outcome) ==
    IF c = CmdHex THEN hex_text_input(Called(s, "text_input", c), line)
    ELSE IF outcome = "bad_input"
    THEN Raise(Called(s, "text_input", c), BadInput("bad input"))
    ELSE ProgramStep(Called(s, "text_input", c), c, outcome)

\* TerminalProgram.on_keypress: the state after the call
program_on_keypress(s, c, outcome) ==
    ProgramStep(Called(s, "on_keypress", c), c,
                IF outcome = "bad_input" THEN "continue" ELSE outcome)

\* TerminalProgram.run
program_run(s, c) == Called(s, "run", c)

\* The characters of the model in the order of their character codes
CharOrder == <<" ", "+", "-", "0", "1", "2", "3", "4", "5", "6", "7", "8", "9",
               "?", "Y", "a", "b", "c", "e", "f", "g", "h", "l", "n", "o", "p", "r",
               "u", "x", "y", "z">>

\* Terminal._ACCEPTED_CHARS: "key_unicode in _ACCEPTED_CHARS" is a substring
\* test, so the empty string of a key without a character is accepted too.
Accepted(u) == u = <<>> \/ (Len(u) = 1 /\ IndexOf(CharOrder, u[1]) # 0)

\* a < b for strings
RECURSIVE StrLess(_, _)
StrLess(a, b) ==
    IF b = <<>> THEN FALSE
    ELSE IF a = <<>> THEN TRUE
    ELSE IF a[1] = b[1] THEN StrLess(Tail(a), Tail(b))
    ELSE IndexOf(CharOrder, a[1]) < IndexOf(CharOrder, b[1])

\* sorted(cmds)
RECURSIVE Sorted(_)
Sorted(cmds) ==
    IF cmds = <<>> THEN <<>>
    ELSE LET least == CHOOSE i \in 1..Len(cmds) :
                          \A j \in 1..Len(cmds) : ~StrLess(cmds[j], cmds[i])
         IN  <<cmds[least]>> \o
             Sorted(SubSeq(cmds, 1, least - 1) \o SubSeq(cmds, least + 1, Len(cmds)))

\* os.path.commonprefix of two strings, then of a list
RECURSIVE CommonPrefix2(_, _)
CommonPrefix2(a, b) ==
    IF a = <<>> \/ b = <<>> \/ a[1] # b[1] THEN <<>>
    ELSE <<a[1]>> \o CommonPrefix2(Tail(a), Tail(b))

RECURSIVE CommonPrefix(_)
CommonPrefix(xs) ==
    IF Len(xs) = 1 THEN xs[1] ELSE CommonPrefix2(xs[1], CommonPrefix(Tail(xs)))

\* "{:10}".format(c): c padded with spaces to ten characters
RECURSIVE Pad(_, _)
Pad(c, width) == IF Len(c) >= width THEN c ELSE Pad(Append(c, " "), width)

CmdHelp == <<"h", "e", "l", "p">>
CmdColour == <<"c", "o", "l", "o", "u", "r", " ">>
CmdFreeze == <<"f", "r", "e", "e", "z", "e", " ">>

\* [c for c in cmds if not self._programs[c].completed()]
RECURSIVE NotCompleted(_, _)
NotCompleted(s, cmds) ==
    IF cmds = <<>> THEN <<>>
    ELSE (IF ~completed(s, cmds[1]) THEN <<cmds[1]>> ELSE <<>>) \o
         NotCompleted(s, Tail(cmds))

\* self._programs.keys()
Installed(s) == {s.programs[i] : i \in 1..Len(s.programs)}

\* The blocked-on list that looks at the first prerequisite only
blocked_onFirst(s, cmd) ==
    IF LevelDepends(cmd) = None THEN <<>>
    ELSE NotCompleted(s, Take(Val(LevelDepends(cmd)), 1))

\* The blocked-on list of _is_cmd_runnable
blocked_on(s, cmd) ==
    IF LevelDepends(cmd) = None THEN <<>>
    ELSE NotCompleted(s, Val(LevelDepends(cmd)))

\* [c for c in cmds if c.startswith(partial)]
RECURSIVE Matching(_, _)
Matching(cmds, partial) ==
    IF cmds = <<>> THEN <<>>
    ELSE (IF StartsWith(cmds[1], partial) THEN <<cmds[1]>> ELSE <<>>) \o
         Matching(Tail(cmds), partial)

is_cmd_runnableAlways(s, cmd) == [ok |-> TRUE, s |-> s]

\* Terminal._is_cmd_runnable: what it returns (ok) and the state it leaves (s)
is_cmd_runnable(s, cmd) ==
    IF Len(blocked_on(s, cmd)) = 0
    THEN [ok |-> TRUE, s |-> s]
    ELSE LET blocked == blocked_on(s, cmd)
             labels == [i \in 1..Len(blocked) |-> <<security_type(blocked[i])>>]
         IN  [ok |-> FALSE,
              s  |-> output(s, <<cmd \o <<" currently blocked by: ">> \o
                                 Join(labels, ", ")>>)]

\* font.render("test", True, colour) returns for colour components 0..255
RenderOk(colour) == \A i \in 1..Len(colour) : colour[i] \in 0..255

\* _process_command that starts a program whether or not it is completed
start_or_reportAlwaysStart(s, cmd) == start(s, cmd)

\* Terminal._process_command: "Don't run the program if it is already
\* completed".  s has cmd's program in the current-program slot.
start_or_report(s, cmd) ==
    IF ~completed(s, cmd)
    THEN start(s, cmd)
    ELSE [output(s, <<AlreadyCompletedLine(cmd)>>) EXCEPT !.current_program = None]

\* Terminal._process_command, cmd in self._programs, given what
\* _is_cmd_runnable returned (r)
run_if_runnable(r, cmd) ==
    IF r.ok
    THEN start_or_report([r.s EXCEPT !.current_program = Some(cmd)], cmd)
    ELSE r.s

process_program(s, cmd) == run_if_runnable(is_cmd_runnable(s, cmd), cmd)

\* Terminal._process_command
process_command(s, cmd) ==
    IF cmd \in Installed(s) THEN process_program(s, cmd)
    ELSE IF cmd \in {CmdHelp, <<"?">>}
    THEN LET sorted_cmds == Sorted(s.programs)
         IN  output(s, <<<<"Available commands:">>>> \o
                       [i \in 1..Len(sorted_cmds) |->
                           <<"  ">> \o Pad(sorted_cmds[i], 10) \o <<"   ">> \o
                           help(sorted_cmds[i])])
    ELSE IF StartsWith(cmd, CmdColour)
    THEN LET args == Tail(Split(cmd))
             colour == [i \in 1..Len(args) |-> ParseInt(args[i])]
         IN
         IF Len(args) = 3
         THEN IF (\A i \in 1..3 : IsInt(args[i])) /\ RenderOk(colour)
              THEN output([s EXCEPT !.text_colour = colour],
                          <<<<"Enjoy your new colour!">>>>)
              ELSE output(s, <<<<"I am not familiar with that colour code.">>>>)
         ELSE s
    ELSE IF StartsWith(cmd, CmdFreeze)
    THEN IF IsInt(Split(cmd)[2])
         THEN freeze(s, ParseInt(Split(cmd)[2]))
         ELSE output(s, <<<<"Invalid time">>>>)
    ELSE IF cmd # <<>>
    THEN output(s, <<<<"Unknown command '">> \o cmd \o <<"'.">>>>)
    ELSE s

\* Terminal._complete_input: except BadInput as e
except_BadInput(s) ==
    IF s.raised # None /\ Val(s.raised)[1] = "BadInput"
    THEN output([s EXCEPT !.raised = None], <<<<"Error: ", Val(s.raised)[2]>>>>)
    ELSE s

\* submit_line that takes every line for a command
submit_lineAsCommand(s, outcome) ==
    LET cmd == RStrip(LStrip(get_current_line(s, FALSE))) IN
    process_command(IF cmd # <<>> THEN add_command(s, cmd) ELSE s, cmd)

\* Terminal._complete_input, after the line is echoed: the line goes to the
\* active program, or is processed as a command
submit_line(s, outcome) ==
    IF s.current_program # None
    THEN \* Handle bad input errors
         except_BadInput(text_input(s, Val(s.current_program),
                                    get_current_line(s, FALSE), outcome))
    ELSE LET cmd == RStrip(LStrip(get_current_line(s, FALSE))) IN
         \* Add to command history, skipping repeated entries
         process_command(IF cmd # <<>> THEN add_command(s, cmd) ELSE s, cmd)

\* Terminal._complete_input: "Reset the prompt", which an exception that
\* is not caught skips
reset_prompt_unless_raised(s) == IF s.raised # None THEN s ELSE reset_prompt(s)

\* Terminal._complete_input
complete_input(s, outcome) ==
    reset_prompt_unless_raised(
        submit_line(add_to_buf(s, <<get_current_line(s, TRUE)>>), outcome))

\* _tab_complete that lists the matches whenever there are several
tab_completeAlwaysList(s) ==
    IF s.current_program = None
    THEN LET partial == get_current_line(s, FALSE)
             matches == Matching(s.programs \o <<CmdHelp>>, partial)
         IN  IF Len(matches) = 1 THEN set_current_line(s, matches[1])
             ELSE IF Len(matches) > 1
             THEN output(s, <<get_current_line(s, TRUE), Join(matches, "  ")>>)
             ELSE s
    ELSE s

\* Terminal._tab_complete
tab_complete(s) ==
    IF s.current_program = None
    THEN LET partial == get_current_line(s, FALSE)
             matches == Matching(s.programs \o <<CmdHelp>>, partial)
         IN  IF Len(matches) = 1 THEN set_current_line(s, matches[1])
             ELSE IF Len(matches) > 1
             THEN IF CommonPrefix(matches) # partial
                  THEN set_current_line(s, CommonPrefix(matches))
                  ELSE output(s, <<get_current_line(s, TRUE),
                                   Join(matches, "  ")>>)
             ELSE s
    ELSE s

\* Terminal.reboot.  A line of the banner is a (pause, text) pair.
reboot(s, msg) ==
    LET banner ==
            <<<<PAUSE_LEN, <<"------------------------------------------------------------">>>>,
              <<PAUSE_LEN, <<"Mainframe terminal">>>>,
              <<PAUSE_LEN, <<>>>>,
              <<PAUSE_LEN, <<"You have ", ToString(secs_left(s.countdown)),
                             "s to login before terminal is locked down.">>>>,
              <<PAUSE_LEN, <<>>>>,
              <<PAUSE_LEN, <<"Tip of the day: press ctrl+c to cancel current command.">>>>,
              <<PAUSE_LEN, <<"------------------------------------------------------------">>>>>>
        extra == IF msg # <<>>
                 THEN <<<<PAUSE_LEN * 25, <<>>>>, <<PAUSE_LEN * 50, msg>>>>
                 ELSE <<>>
        queued == s.reboot_buf \o banner \o extra
        end_msgs ==
            IF <<"l", "o", "g", "i", "n">> \in Installed(s)
            THEN <<<<PAUSE_LEN, <<"Type 'login' to log in, or 'help' to list available commands">>>>>>
            ELSE <<<<PAUSE_LEN, <<"Type 'help' to list available commands">>>>>>
        \* Push banner to top, leaving space for end messages, and for
        \* current line.  [x] * n is empty for n <= 0.
        blank_lines == VISIBLE_LINES - Len(queued) - Len(end_msgs) - 1
        blanks == [i \in 1..blank_lines |-> <<PAUSE_LEN, <<>>>>]
    IN  [s EXCEPT !.buf = <<>>,
                  !.rebooting = TRUE,
                  !.reboot_update_time = s.time,
                  !.reboot_buf = queued \o blanks \o end_msgs]

\* Terminal._run_reboot, after the line is popped and shown
reboot_advance(s, pause) ==
    IF s.reboot_buf = <<>>
    THEN [s EXCEPT !.rebooting = FALSE]
    ELSE [s EXCEPT !.reboot_update_time =
                       s.time + pause - (s.time - s.reboot_update_time)]

\* Terminal._run_reboot
run_reboot(s) ==
    IF s.rebooting /\ s.reboot_update_time <= s.time
    THEN reboot_advance(output([s EXCEPT !.reboot_buf = Tail(@)],
                               <<s.reboot_buf[1][2]>>),
                        s.reboot_buf[1][1])
    ELSE s

\* The keys of the model: a key code and the character pygame decodes for it
Key(code, unicode) == [key |-> code, unicode |-> unicode]

K_RETURN    == Key("K_RETURN", <<"CR">>)
K_BACKSPACE == Key("K_BACKSPACE", <<"BS">>)
K_UP        == Key("K_UP", <<>>)
K_DOWN      == Key("K_DOWN", <<>>)
K_TAB       == Key("K_TAB", <<"TAB">>)
K_c         == Key("K_c", <<"c">>)
K_DELETE    == Key("K_DELETE", <<"DEL">>)
K_LSHIFT    == Key("K_LSHIFT", <<>>)
CharKey(ch) == Key("K_" \o ch, <<ch>>)

\* The check of on_keypress, forgetting the reboot
input_ignoredFrozenOnly(s) == s.freeze_time # None

\* Terminal.on_keypress: "Ignore all input if in freeze mode, or we are
\* rebooting."
input_ignored(s) == s.freeze_time # None \/ s.rebooting

\* ctrl+c that aborts whatever is running, permitted or not
ctrl_cAlwaysAbort(s) ==
    IF s.current_program # None
    THEN reset_prompt(output(
             [on_abort(s, Val(s.current_program)) EXCEPT !.current_program = None],
             <<get_current_line(s, TRUE) \o <<"^C">>>>))
    ELSE reset_prompt(output(s, <<get_current_line(s, TRUE) \o <<"^C">>>>))

\* Terminal.on_keypress: "Abort whatever is running on ctrl+c"
ctrl_c(s) ==
    IF s.current_program # None
    THEN IF ~allow_ctrl_c(Val(s.current_program))
         THEN s
         ELSE reset_prompt(output(
                  [on_abort(s, Val(s.current_program)) EXCEPT !.current_program = None],
                  <<get_current_line(s, TRUE) \o <<"^C">>>>))
    ELSE reset_prompt(output(s, <<get_current_line(s, TRUE) \o <<"^C">>>>))

IsEnter(key) == key.key \in {"K_RETURN", "K_KP_ENTER"}

IsArrow(key) == key.key \in {"K_UP", "K_DOWN"}

\* Terminal.on_keypress: "Now handle terminal keyboard input"
terminal_key(s, key, outcome) ==
    IF IsEnter(key)
    THEN IF get_current_line(s, TRUE) # <<>> THEN complete_input(s, outcome) ELSE s
    ELSE IF key.key = "K_BACKSPACE"
    THEN [s EXCEPT !.current_line = SubSeq(@, 1, Len(@) - 1)]
    ELSE IF IsArrow(key)
    THEN \* Currently not supported in a program
         IF s.current_program = None THEN navigate(s, key.key = "K_UP") ELSE s
    ELSE IF key.key = "K_TAB"
    THEN tab_complete(s)
    ELSE IF Accepted(key.unicode)
    THEN [s EXCEPT !.current_line = @ \o key.unicode]
    ELSE s

\* Terminal.on_keypress: repeat_on_hold
repeat_on_hold(key) ==
    \/ key.key = "K_BACKSPACE"
    \/ ~IsEnter(key) /\ ~IsArrow(key) /\ key.key # "K_TAB" /\ Accepted(key.unicode)

\* Terminal.on_keypress: "If this is a key that should be repeated when
\* held, then setup the attributes"
hold_key(s, key) ==
    IF s.raised # None THEN s
    ELSE IF repeat_on_hold(key) THEN [s EXCEPT !.held_key = Some(<<key, s.time>>)] ELSE s

\* Terminal.on_keypress, for input that is not ignored.  ctrl is
\* pygame.key.get_mods() & KMOD_CTRL at the time of the call.
handle_key(s, key, ctrl, outcome) ==
    IF key.key = "K_c" /\ ctrl
    THEN ctrl_c(s)
    ELSE IF /\ s.current_program # None
            /\ \/ is_graphical(Val(s.current_program))
               \/ intercept_keypress(Val(s.current_program))
    THEN program_on_keypress(s, Val(s.current_program), outcome)
    ELSE hold_key(terminal_key(s, key, outcome), key)

\* Terminal.on_keypress
on_keypress(s, key, ctrl, outcome) ==
    \* Ignore all input if in freeze mode, or we are rebooting.
    IF input_ignored(s) THEN s
    ELSE \* Any typing other than arrows reset history navigation
         handle_key(IF ~IsArrow(key) THEN reset_navigation(s) ELSE s,
                    key, ctrl, outcome)

\* Terminal.on_keyrelease
on_keyrelease(s) == [s EXCEPT !.held_key = None, !.key_last_repeat = None]

\* run() that never sets locked
check_lockedNever(s) == s

\* Terminal.run: "Check if the player ran out of time."
check_locked(s) == IF ended(s.countdown) THEN [s EXCEPT !.locked = TRUE] ELSE s

\* Timer.update: a paused timer does not advance
timer_update(s, frametime) == [s EXCEPT !.time = @ + frametime]

\* Terminal.run: "Check whether the current program (if there is one) has
\* exited."
run_exited(s) ==
    IF s.current_program # None /\ exited(s, Val(s.current_program))
    THEN reset_prompt(
             [(IF /\ completed(s, Val(s.current_program))
                  /\ ~suppress_success(Val(s.current_program))
               THEN output(s, <<success_syslog(Val(s.current_program))>>)
               ELSE s)
              EXCEPT !.current_program = None])
    ELSE s

\* Terminal.run: the countdown's update with the frame time
run_countdown(s, frametime) ==
    check_locked([s EXCEPT !.countdown = CountdownUpdate(@, frametime)])

\* run() that unfreezes the terminal as soon as the window is used up
run_unfreezeAtDeadline(s) ==
    IF /\ s.freeze_time # None
       /\ s.time >= Val(s.freeze_start) + Val(s.freeze_time)
    THEN reset_prompt([s EXCEPT !.freeze_time = None, !.freeze_start = None])
    ELSE s

\* Terminal.run: "See whether terminal can be unfrozen"
run_unfreeze(s) ==
    IF /\ s.freeze_time # None
       /\ s.time > Val(s.freeze_start) + Val(s.freeze_time)
    THEN reset_prompt([s EXCEPT !.freeze_time = None, !.freeze_start = None])
    ELSE s

\* run() that waits the short delay before the first repeat as well
run_key_repeatShortDelay(s, ctrl, outcome) ==
    IF s.held_key # None
    THEN LET last == IF s.key_last_repeat = None THEN Val(s.held_key)[2]
                     ELSE Val(s.key_last_repeat)
         IN  IF s.time - last > KEY_REPEAT_DELAY
             THEN on_keypress([s EXCEPT !.key_last_repeat = Some(s.time)],
                              Val(s.held_key)[1], ctrl, outcome)
             ELSE s
    ELSE s

\* Terminal.run: "See whether a key is held, and repeat it"
run_key_repeat(s, ctrl, outcome) ==
    IF s.held_key # None
    THEN LET last == IF s.key_last_repeat = None THEN Val(s.held_key)[2]
                     ELSE Val(s.key_last_repeat)
             delay == IF s.key_last_repeat = None THEN KEY_REPEAT_INITIAL_DELAY
                      ELSE KEY_REPEAT_DELAY
         IN  IF s.time - last > delay
             THEN on_keypress([s EXCEPT !.key_last_repeat = Some(s.time)],
                              Val(s.held_key)[1], ctrl, outcome)
             ELSE s
    ELSE s

\* Terminal.run: "Run the current program logic"
run_program(s) ==
    IF s.raised # None THEN s
    ELSE IF s.current_program # None THEN program_run(s, Val(s.current_program)) ELSE s

\* run() that does not look at paused
runIgnoringPause(s, frametime, ctrl, outcome) ==
    run_program(
        run_key_repeat(
            run_unfreeze(
                run_countdown(
                    run_exited(run_reboot(timer_update(s, frametime))),
                    frametime)),
            ctrl, outcome))

\* run() that runs the program logic before it looks for an exited program
runProgramFirst(s, frametime, ctrl, outcome) ==
    IF s.paused THEN s
    ELSE run_key_repeat(
             run_unfreeze(
                 run_countdown(
                     run_exited(
                         run_program(run_reboot(timer_update(s, frametime)))),
                     frametime)),
             ctrl, outcome)

\* Terminal.run.  frametime is what Timer.update() measured for this frame.
run(s, frametime, ctrl, outcome) ==
    IF s.paused THEN s
    ELSE run_program(
             run_key_repeat(
                 run_unfreeze(
                     run_countdown(
                         run_exited(run_reboot(timer_update(s, frametime))),
                         frametime)),
                 ctrl, outcome))

\* Terminal.completed
terminal_completed(s) == \A c \in Installed(s) : completed(s, c)

---------------------------------------------------------------------------
(* The state machine *)

\* The terminal state as the record the functions above work on
S == [time |-> time, paused |-> paused, locked |-> locked,
      current_line |-> current_line, buf |-> buf,
      history |-> history, pos |-> pos, saved_line |-> saved_line,
      countdown |-> countdown,
      freeze_start |-> freeze_start, freeze_time |-> freeze_time,
      rebooting |-> rebooting, reboot_update_time |-> reboot_update_time,
      reboot_buf |-> reboot_buf,
      held_key |-> held_key, key_last_repeat |-> key_last_repeat,
      current_program |-> current_program,
      prog_completed |-> prog_completed, prog_exited |-> prog_exited,
      text_colour |-> text_colour,
      hex |-> hex, random |-> random, raised |-> raised,
      programs |-> programs, calls |-> calls]

\* The state at the start of a handler: calls names the handler alone
Begin(handler) == [S EXCEPT !.calls = <<<<handler, <<>>>>>>]

\* The terminal's next state is s
Update(s) ==
    /\ time' = s.time
    /\ paused' = s.paused
    /\ locked' = s.locked
    /\ current_line' = s.current_line
    /\ buf' = s.buf
    /\ history' = s.history
    /\ pos' = s.pos
    /\ saved_line' = s.saved_line
    /\ countdown' = s.countdown
    /\ freeze_start' = s.freeze_start
    /\ freeze_time' = s.freeze_time
    /\ rebooting' = s.rebooting
    /\ reboot_update_time' = s.reboot_update_time
    /\ reboot_buf' = s.reboot_buf
    /\ held_key' = s.held_key
    /\ key_last_repeat' = s.key_last_repeat
    /\ current_program' = s.current_program
    /\ prog_completed' = s.prog_completed
    /\ prog_exited' = s.prog_exited
    /\ text_colour' = s.text_colour
    /\ hex' = s.hex
    /\ random' = s.random
    /\ raised' = s.raised
    /\ programs' = s.programs
    /\ calls' = s.calls

\* The next state is s, by a handler other than output()
Become(s) == Update(s) /\ UNCHANGED lines_output

\* Terminal.__init__ and CommandHistory.__init__ for a level of time_in_s
\* seconds; the constructor ends with reboot().
ConstructedLevel(level, time_in_s) ==
    reboot([time |-> 0, paused |-> FALSE, locked |-> FALSE,
            current_line |-> <<>>, buf |-> <<>>,
            history |-> <<>>, pos |-> -1, saved_line |-> None,
            countdown |-> CountdownInit(time_in_s, TIMER_WARNING_SECS),
            freeze_start |-> None, freeze_time |-> None,
            rebooting |-> FALSE, reboot_update_time |-> 0, reboot_buf |-> <<>>,
            held_key |-> None, key_last_repeat |-> None,
            current_program |-> None,
            prog_completed |-> [c \in Programs |-> FALSE],
            prog_exited |-> [c \in Programs |-> FALSE],
            text_colour |-> <<20, 200, 20>>,
            hex |-> HexEditorInit, random |-> 1, raised |-> None,
            programs |-> level, calls |-> <<>>],
           <<>>)

\* The terminal of the level with all the programs of the model
Constructed(time_in_s) == ConstructedLevel(LevelPrograms, time_in_s)

InitAs(s) ==
    /\ time = s.time
    /\ paused = s.paused
    /\ locked = s.locked
    /\ current_line = s.current_line
    /\ buf = s.buf
    /\ history = s.history
    /\ pos = s.pos
    /\ saved_line = s.saved_line
    /\ countdown = s.countdown
    /\ freeze_start = s.freeze_start
    /\ freeze_time = s.freeze_time
    /\ rebooting = s.rebooting
    /\ reboot_update_time = s.reboot_update_time
    /\ reboot_buf = s.reboot_buf
    /\ held_key = s.held_key
    /\ key_last_repeat = s.key_last_repeat
    /\ current_program = s.current_program
    /\ prog_completed = s.prog_completed
    /\ prog_exited = s.prog_exited
    /\ text_colour = s.text_colour
    /\ hex = s.hex
    /\ random = s.random
    /\ raised = s.raised
    /\ programs = s.programs
    /\ calls = s.calls
    /\ lines_output = 0

Init == InitAs(Constructed(LevelTime))

(* Bounds of the player's session *)

\* The scrollback lines after which the player submits nothing more
MaxBufLen == 30
\* The seconds the host keeps running frames after the level's time
MaxOvertime == 1
\* The lines the player types, character by character
TypedLines == {CmdA, CmdB, CmdHe}
TypedChars == {"a", "b", "h", "e"}
\* The frame times of the host loop, in milliseconds
FrameTimes == {1000}
\* The penalties a program passes to reduce_time, in seconds
Penalties == {2}

IsTyped(line) == \E l \in TypedLines : StartsWith(l, line)

\* What the active program, if any, may decide in a handler
OutcomesNow == IF current_program = None THEN {"continue"} ELSE Outcomes

(* The events of GameplayState.run *)

\* The process runs until an exception nothing catches ends it
Running == raised = None

\* KEYDOWN: Terminal.on_keypress(e.key, e.unicode)
KeyDown(key, ctrl, outcome) ==
    Running /\ Become(on_keypress(Begin("on_keypress"), key, ctrl, outcome))

\* KEYUP: Terminal.on_keyrelease()
KeyUp == Running /\ Become(on_keyrelease(Begin("on_keyrelease")))

\* One frame: Terminal.run()
Tick(frametime, ctrl, outcome) ==
    Running /\ Become(run(Begin("run"), frametime, ctrl, outcome))

\* Terminal.paused, the setter
SetPaused(value) == Running /\ Become([Begin("paused") EXCEPT !.paused = value])

\* The active program calls Terminal.reduce_time
ReduceTime(secs) ==
    /\ Running
    /\ current_program # None
    /\ ~paused
    /\ Become(reduce_time(Begin("reduce_time"), secs))

(* The player of this specification presses one key at a time and releases *)
(* it within the frame.  Escape pauses the game; while it is paused the    *)
(* pause menu takes the events, and the host loop keeps running frames.    *)

Playing == ~paused /\ held_key = None

TypeChar ==
    \E ch \in TypedChars, outcome \in OutcomesNow :
        /\ Playing
        /\ IsTyped(Append(current_line, ch))
        /\ KeyDown(CharKey(ch), FALSE, outcome)

PressEnter ==
    \E outcome \in OutcomesNow :
        /\ Playing
        /\ Len(buf) < MaxBufLen
        /\ KeyDown(K_RETURN, FALSE, outcome)

PressTab ==
    /\ Playing
    /\ Len(buf) < MaxBufLen
    /\ KeyDown(K_TAB, FALSE, "continue")

PressCtrlC ==
    \E outcome \in OutcomesNow :
        /\ Playing
        /\ Len(buf) < MaxBufLen
        /\ KeyDown(K_c, TRUE, outcome)

PressOther ==
    \E key \in {K_BACKSPACE, K_UP, K_DOWN, K_DELETE, K_LSHIFT},
       outcome \in OutcomesNow :
        /\ Playing
        /\ KeyDown(key, FALSE, outcome)

Frame ==
    \E frametime \in FrameTimes, ctrl \in BOOLEAN, outcome \in OutcomesNow :
        /\ held_key = None
        /\ time < (LevelTime + MaxOvertime) * 1000
        /\ Tick(frametime, ctrl, outcome)

Penalty == \E secs \in Penalties : ReduceTime(secs)

\* KEYDOWN of K_ESCAPE
Pause == Playing /\ SetPaused(TRUE)

\* The pause menu resumes the game
Resume == paused /\ SetPaused(FALSE)

Next ==
    \/ TypeChar
    \/ PressEnter
    \/ PressTab
    \/ PressCtrlC
    \/ PressOther
    \/ KeyUp
    \/ Frame

\* The player at the keyboard, frame after frame
Spec == Init /\ [][Next]_vars

\* The player starts programs, pauses and resumes the game, and the active
\* program takes time off the countdown
NextTimer ==
    \/ TypeChar
    \/ PressEnter
    \/ KeyUp
    \/ Frame
    \/ Penalty
    \/ Pause
    \/ Resume

SpecTimer == Init /\ [][NextTimer]_vars


---------------------------------------------------------------------------
(* Terminal.output alone: a caller hands the terminal numbered lines.      *)
(* Line n is the n-th line handed to output() since construction.          *)

\* The lines after which the caller stops
MaxOutput == 120
\* The most lines of one output() call
MaxLinesPerCall == 3

\* Terminal.output(lines)
OutputCall(lines) ==
    /\ lines_output < MaxOutput
    /\ Update(output(Begin("output"), lines))
    /\ lines_output' = lines_output + Len(lines)

NextBuf ==
    \E k \in 0..MaxLinesPerCall :
        OutputCall([i \in 1..k |-> <<lines_output + i>>])

SpecBuf == Init /\ [][NextBuf]_vars

---------------------------------------------------------------------------
(* CountdownTimer alone: update() called with any of a few step lengths,   *)
(* on a countdown of a short level and of one longer than the warning.     *)

CountdownTimes == {5, 33}

\* The steps of update(), in milliseconds; the last is longer than any level
UpdateSteps == {0, 250, 1000, 3250, 40000}

InitCountdown == \E t \in CountdownTimes : InitAs(Constructed(t))

\* CountdownTimer.update(ms)
UpdateCall(ms) ==
    Become([Begin("update") EXCEPT !.countdown = CountdownUpdate(@, ms)])

NextCountdown == \E ms \in UpdateSteps : UpdateCall(ms)

SpecCountdown == InitCountdown /\ [][NextCountdown]_vars

---------------------------------------------------------------------------
(* CommandHistory alone: its three methods, and the terminal editing the   *)
(* input line while the history is not being navigated.                    *)

HistoryCmds == {CmdA, CmdB}

Drafts == {<<>>, <<"h">>}

\* CommandHistory.add_command(cmd)
AddCommandCall(cmd) == Become(add_command(Begin("add_command"), cmd))

\* CommandHistory.navigate(up)
NavigateCall(up) == Become(navigate(Begin("navigate"), up))

\* CommandHistory.reset_navigation()
ResetNavigationCall == Become(reset_navigation(Begin("reset_navigation")))

\* Terminal.set_current_line(line), the player's draft
DraftCall(line) ==
    /\ pos = -1
    /\ Become(set_current_line(Begin("set_current_line"), line))

NextHistory ==
    \/ \E cmd \in HistoryCmds : AddCommandCall(cmd)
    \/ \E up \in BOOLEAN : NavigateCall(up)
    \/ ResetNavigationCall
    \/ \E line \in Drafts : DraftCall(line)

SpecHistory == Init /\ [][NextHistory]_vars

---------------------------------------------------------------------------
(* Reboots: the active program calls Terminal.reboot, with a message or    *)
(* without, while the terminal is up or while a reboot is still playing.   *)

RebootMessages == {<<>>, <<"Rebooting">>}

\* The longest queue of banner lines at which reboot() is called again
MaxRebootQueue == 28

\* The seconds the session lasts
MaxRebootTime == 70

\* The active program calls Terminal.reboot(msg), before the terminal locks
RebootCall ==
    \E msg \in RebootMessages :
        /\ Running
        /\ current_program # None
        /\ ~locked
        /\ Len(reboot_buf) <= MaxRebootQueue
        /\ Become(reboot(Begin("reboot"), msg))

\* The player starts program b
RebootType ==
    /\ Playing
    /\ current_line = <<>>
    /\ current_program = None
    /\ KeyDown(CharKey("b"), FALSE, "continue")

RebootEnter ==
    /\ Playing
    /\ current_line = CmdB
    /\ KeyDown(K_RETURN, FALSE, "continue")

RebootFrame ==
    /\ time < MaxRebootTime * 1000
    /\ Tick(1000, FALSE, "continue")

NextReboot ==
    \/ RebootCall
    \/ RebootType
    \/ RebootEnter
    \/ KeyUp
    \/ RebootFrame

SpecReboot == Init /\ [][NextReboot]_vars

---------------------------------------------------------------------------
(* Commands the terminal turns down, and the reserved commands with good   *)
(* and bad arguments.                                                      *)

CommandLines ==
    {CmdHe, <<"z">>,
     CmdColour \o <<"1">>,
     CmdColour \o <<"z", " ", "1", " ", "1">>,
     CmdColour \o <<"1", " ", "1", " ", "1">>,
     CmdFreeze \o <<"z">>,
     CmdFreeze \o <<"1">>}

CommandType ==
    \E l \in CommandLines :
        /\ Playing
        /\ ~rebooting
        /\ Len(current_line) < Len(l)
        /\ StartsWith(l, current_line)
        /\ KeyDown(CharKey(l[Len(current_line) + 1]), FALSE, "continue")

CommandEnter == current_line \in CommandLines /\ PressEnter

NextCommand ==
    \/ CommandType
    \/ CommandEnter
    \/ KeyUp
    \/ Frame

SpecCommand == Init /\ [][NextCommand]_vars

---------------------------------------------------------------------------
(* Tab completion: the player types any short line and presses Tab.        *)

TabChars == {"a", "b", "h", "e", "l", "z"}

\* The longest line the player types before Tab
MaxTabLine == 3

TabType ==
    \E ch \in TabChars :
        /\ Playing
        /\ ~rebooting
        /\ Len(current_line) < MaxTabLine
        /\ KeyDown(CharKey(ch), FALSE, "continue")

\* Enter on the command of a program
TabEnter == current_line \in {CmdA, CmdB} /\ PressEnter

NextTab ==
    \/ TabType
    \/ PressTab
    \/ TabEnter
    \/ KeyUp
    \/ Frame

SpecTab == Init /\ [][NextTab]_vars

---------------------------------------------------------------------------
(* Frames of any length, with a key held across frames and with the game   *)
(* paused while a key is held.                                             *)

\* A frame of a second, and a frame in which the game stalled for longer
\* than a program's freeze
TickFrameTimes == {1000, 6000}

\* How long a held key may make the input line by repeating
MaxHeldLine == 2

TickFrame ==
    \E frametime \in TickFrameTimes, outcome \in OutcomesNow :
        /\ time < (LevelTime + MaxOvertime) * 1000
        /\ rebooting => frametime = 1000
        /\ held_key # None => Len(current_line) < MaxHeldLine
        /\ Tick(frametime, FALSE, outcome)

TickPause == ~paused /\ SetPaused(TRUE)

NextTick ==
    \/ TypeChar
    \/ PressEnter
    \/ KeyUp
    \/ TickFrame
    \/ TickPause
    \/ Resume

SpecTick == Init /\ [][NextTick]_vars

---------------------------------------------------------------------------
(* Specification SpecHost: GameplayState.run for a level of the programs a *)
(* and b.  After the events of a frame the host runs the terminal, and     *)
(* then looks at locked and at completed(): it pushes the lost screen, or  *)
(* replaces a state by the success screen, and the game is no longer run.  *)

\* level_info['programs'] of the level played
HostLevel == <<CmdA, CmdB>>

\* The scrollback of the longest session: the boot banner, two commands and
\* an answer
MaxHostBufLen == 31

InitHost == InitAs(ConstructedLevel(HostLevel, LevelTime))

\* The call of GameplayState.run has run the terminal
TerminalRan == calls # <<>> /\ calls[1][1] = "run"

\* GameplayState.run: "if self._terminal.locked", at the end of the call
LostPushed == TerminalRan /\ locked

\* GameplayState.run: "if self._terminal.completed()", at the end of the call
SuccessReplaced == TerminalRan /\ terminal_completed(S)

\* No end screen has taken the place of the game
GameOn == ~LostPushed /\ ~SuccessReplaced

HostType == GameOn /\ TypeChar

HostEnter ==
    \E outcome \in OutcomesNow :
        /\ GameOn
        /\ Playing
        /\ Len(buf) < MaxHostBufLen
        /\ KeyDown(K_RETURN, FALSE, outcome)

HostKeyUp == GameOn /\ KeyUp

HostFrame == GameOn /\ Frame

NextHost ==
    \/ HostType
    \/ HostEnter
    \/ HostKeyUp
    \/ HostFrame

SpecHost == InitHost /\ [][NextHost]_vars

---------------------------------------------------------------------------
(* Specification SpecDepends: the player works through the level: starts   *)
(* programs, answers them, aborts them and starts the one that depends on  *)
(* the others.                                                             *)

\* The scrollback of the longest session: the boot banner, three commands,
\* an answer, and an aborted line or the log line of a success
MaxDependsBufLen == 33

\* KEYDOWN of Return, when a command of the level is typed
DependsEnter ==
    \E outcome \in OutcomesNow \ {"bad_input"} :
        /\ Playing
        /\ Len(buf) < MaxDependsBufLen
        /\ current_line \in TypedLines
        /\ KeyDown(K_RETURN, FALSE, outcome)

DependsCtrlC ==
    /\ Playing
    /\ current_program # None
    /\ Len(buf) < MaxDependsBufLen
    /\ KeyDown(K_c, TRUE, "continue")

\* One frame of 1000 ms, with no key held
DependsFrame ==
    /\ held_key = None
    /\ time < (LevelTime + MaxOvertime) * 1000
    /\ Tick(1000, FALSE, "continue")

NextDepends ==
    \/ TypeChar
    \/ DependsEnter
    \/ DependsCtrlC
    \/ KeyUp
    \/ DependsFrame

SpecDepends == Init /\ [][NextDepends]_vars

---------------------------------------------------------------------------
(* Specification SpecRepeat: the player presses one key at a time and may  *)
(* keep it held over frames of 50 and 250 ms.                              *)

\* What Timer.update() measures for a frame, in ms
RepeatFrameTimes == {50, 250}

\* The frames stop at this time, in ms: the boot banner takes 28 frames of
\* 250 ms, and 700 ms of play follow
MaxRepeatTime == 7700

\* How long a held key may make the input line by repeating
MaxRepeatLine == 3

\* The scrollback of the longest session: the boot banner and one line
MaxRepeatBufLen == 29

RepeatEnter == Len(buf) < MaxRepeatBufLen /\ PressEnter

RepeatFrame ==
    \E frametime \in RepeatFrameTimes, outcome \in OutcomesNow :
        /\ time < MaxRepeatTime
        /\ rebooting => frametime = 250
        /\ held_key # None => Len(current_line) < MaxRepeatLine
        /\ Tick(frametime, FALSE, outcome)

NextRepeat ==
    \/ TypeChar
    \/ RepeatEnter
    \/ PressTab
    \/ PressOther
    \/ KeyUp
    \/ RepeatFrame

SpecRepeat == Init /\ [][NextRepeat]_vars

---------------------------------------------------------------------------
(* Specification SpecOverlap: the player presses a second key while the    *)
(* first is still held.  GameplayState.run passes every KEYDOWN to         *)
(* on_keypress, whatever is held already, and the KEYUP of any key to      *)
(* on_keyrelease.                                                          *)

\* The keys of the player
OverlapChars == {"a", "b"}

\* The frames stop at this time, in ms: the boot banner takes 28 frames of
\* 250 ms, and 700 ms of play follow
MaxOverlapTime == 7700

\* How long the input line may get by presses and repeats
MaxOverlapLine == 4

\* KEYDOWN of a character key, with or without another key held: a key
\* that is down sends no second KEYDOWN
OverlapPress ==
    \E ch \in OverlapChars :
        /\ ~paused
        /\ held_key # None => Val(held_key)[1] # CharKey(ch)
        /\ Len(current_line) < MaxOverlapLine
        /\ KeyDown(CharKey(ch), FALSE, "continue")

\* One frame of the host loop
OverlapFrame ==
    \E frametime \in RepeatFrameTimes :
        /\ time < MaxOverlapTime
        /\ rebooting => frametime = 250
        /\ held_key # None => Len(current_line) < MaxOverlapLine
        /\ Tick(frametime, FALSE, "continue")

NextOverlap ==
    \/ OverlapPress
    \/ KeyUp
    \/ OverlapFrame

SpecOverlap == Init /\ [][NextOverlap]_vars

---------------------------------------------------------------------------
(* Specification SpecFreeze: the host loop of GameplayState.run.  The      *)
(* player may press Return while another key is still held, and may pause  *)
(* a frozen game; the host runs the terminal in every frame in which it is *)
(* not paused, also past the end of the level while the terminal is        *)
(* frozen.                                                                 *)

\* KEYDOWN of Return, whether or not a key is held
FreezeEnter ==
    \E outcome \in OutcomesNow :
        /\ ~paused
        /\ Len(buf) < MaxBufLen
        /\ KeyDown(K_RETURN, FALSE, outcome)

\* One frame of the host loop: "if not self._terminal.paused"
FreezeFrame ==
    \E frametime \in TickFrameTimes, outcome \in OutcomesNow :
        /\ ~paused
        /\ \/ freeze_time # None
           \/ /\ time < (LevelTime + MaxOvertime) * 1000
              /\ held_key # None => Len(current_line) < MaxHeldLine
        /\ rebooting => frametime = 1000
        /\ Tick(frametime, FALSE, outcome)

\* KEYDOWN of K_ESCAPE while the terminal is frozen
FreezePause == freeze_time # None /\ TickPause

NextFreeze ==
    \/ TypeChar
    \/ FreezeEnter
    \/ KeyUp
    \/ FreezeFrame
    \/ FreezePause
    \/ Resume

\* ENABLED <<FreezeFrame>>_vars: the clock advances in every frame
FrameDue ==
    /\ ~paused
    /\ Running
    /\ \/ freeze_time # None
       \/ /\ time < (LevelTime + MaxOvertime) * 1000
          /\ held_key # None => Len(current_line) < MaxHeldLine

\* SF_vars(FreezeFrame), with FrameDue written for its enabling condition:
\* the host loop runs a frame again and again while the game is not paused
FramesKeepComing == <>[]~FrameDue \/ []<><<FreezeFrame>>_vars

\* The host loop never stops running frames, and the player who paused the
\* game resumes it
SpecFreeze ==
    Init /\ [][NextFreeze]_vars /\ FramesKeepComing /\ WF_vars(Resume)

---------------------------------------------------------------------------
(* The data editor in the terminal: the player boots the terminal, starts  *)
(* the editor and answers its prompts.                                     *)

\* The scrollback of the longest session: the boot banner, the command, the
\* table and the answers
MaxHexBufLen == 44

\* What the player answers to each prompt
HexAnswers ==
    IF current_program = None THEN {CmdHex}
    ELSE IF hex.state = "QUERY_ROW" THEN {<<"n">>, <<" ", "Y">>}
    ELSE IF hex.state = "ENTER_COL" THEN {<<"0">>, <<"2">>, <<"6">>, <<"g">>}
    ELSE {<<"0">>, <<"f">>, <<"g">>}

\* The terminal starts with the random module in any of its states
InitHex ==
    \E r \in 1..Len(HexTables) :
        InitAs([Constructed(LevelTime) EXCEPT !.random = r])

HexType ==
    \E ch \in {" ", "Y", "n", "x", "0", "2", "6", "f", "g"} :
        /\ Playing
        /\ ~rebooting
        /\ \E l \in HexAnswers : StartsWith(l, current_line \o <<ch>>)
        /\ KeyDown(CharKey(ch), FALSE, "continue")

HexEnter ==
    /\ Playing
    /\ ~rebooting
    /\ Len(buf) < MaxHexBufLen
    /\ current_line \in HexAnswers \/ (current_line = <<>> /\ hex.state = "ENTER_VAL")
    /\ KeyDown(K_RETURN, FALSE, "continue")

HexFrame == current_line = <<>> /\ Frame

NextHex ==
    \/ HexType
    \/ HexEnter
    \/ KeyUp
    \/ HexFrame

SpecHex == InitHex /\ [][NextHex]_vars

---------------------------------------------------------------------------
(* Specification SpecRestart: the player of SpecHex may also abort the     *)
(* editor with Control+C and start it again.                               *)

\* KEYDOWN of c with Control held, while the editor is active
HexCtrlC ==
    /\ Playing
    /\ ~rebooting
    /\ current_program # None
    /\ Len(buf) < MaxHexBufLen
    /\ KeyDown(K_c, TRUE, "continue")

NextRestart ==
    \/ HexType
    \/ HexEnter
    \/ HexCtrlC
    \/ KeyUp
    \/ HexFrame

SpecRestart == Init /\ [][NextRestart]_vars

---------------------------------------------------------------------------
(* Properties *)

\* The handler of the last step
LastHandler == IF calls = <<>> THEN "" ELSE calls[1][1]

\* The tokens of a line
Tokens(line) == {line[i] : i \in 1..Len(line)}

\* How many times a handler called start() on program c, and on any program
StartsOf(cs, c) == Cardinality({i \in 1..Len(cs) : cs[i] = <<"start", c>>})

StartsIn(cs) == Cardinality({i \in 1..Len(cs) : cs[i][1] = "start"})

\* C1: after any sequence of output() calls the scrollback holds at most
\* BUF_SIZE (100) lines, and they are exactly the last min(100, total) lines
\* handed to output(), the newest at the front: a full buffer drops its
\* oldest line for each new one.
ScrollbackNewestFirst ==
    /\ Len(buf) <= BUF_SIZE
    /\ Len(buf) = Min(BUF_SIZE, lines_output)
    /\ \A i \in 1..Len(buf) : buf[i] = <<lines_output - i + 1>>

\* More than a buffer of lines was output, in calls of several lines
ScrollbackEvicted ==
    /\ LastHandler = "output"
    /\ Len(buf) = BUF_SIZE
    /\ lines_output > BUF_SIZE + 1

\* The command the terminal makes of the input line
CommandLine == RStrip(LStrip(current_line))

\* Enter is about to dispatch a registered command: input is not ignored and
\* no program is active
Dispatching ==
    /\ freeze_time = None
    /\ ~rebooting
    /\ current_program = None
    /\ CommandLine \in Programs

Prerequisites(cmd) ==
    IF LevelDepends(cmd) = None THEN {}
    ELSE {Val(LevelDepends(cmd))[i] : i \in 1..Len(Val(LevelDepends(cmd)))}

Unmet(cmd) == {d \in Prerequisites(cmd) : ~prog_completed[d]}

\* C2: when no program is active and the line submitted is a registered
\* command with a prerequisite that is not completed, the dispatch does not
\* call start() on the command's program, leaves the active-program slot
\* empty, and outputs a "blocked by" line with the security_type of every
\* unmet prerequisite and of no met one.
BlockedCommandNotStarted ==
    [][(PressEnter /\ Dispatching /\ Unmet(CommandLine) # {}) =>
          /\ StartsOf(calls', CommandLine) = 0
          /\ current_program' = None
          /\ " currently blocked by: " \in Tokens(buf'[1])
          /\ \A d \in Prerequisites(CommandLine) :
                 security_type(d) \in Tokens(buf'[1]) <=> d \in Unmet(CommandLine)
      ]_vars

\* The door command was refused with one prerequisite met and one unmet
BlockedByOneOfTwo ==
    /\ LastHandler = "on_keypress"
    /\ prog_completed[CmdA]
    /\ ~prog_completed[CmdB]
    /\ current_program = None
    /\ buf # <<>>
    /\ buf[1] = CmdHe \o <<" currently blocked by: ", security_type(CmdB)>>

EndedLocksAndStays ==
    [][/\ countdown'.timeleft = 0 => ended(countdown')
       /\ (Frame /\ ~paused) => (ended(countdown') => locked')
       /\ ended(countdown) => ended(countdown')
       /\ locked => locked'
      ]_vars

\* The countdown ended early, by reduce_time(), and a run() locked the terminal
LockedAfterPenalty ==
    /\ LastHandler = "run"
    /\ locked
    /\ ended(countdown)
    /\ time < LevelTime * 1000

\* C5: after any sequence of update(ms) calls with ms >= 0, one of them longer
\* than the time left, the time left is not negative, and ended holds if and
\* only if the time left is zero.
TimeLeftNeverNegative ==
    /\ countdown.timeleft >= 0
    /\ ended(countdown) <=> countdown.timeleft = 0

\* update() ran the countdown out
CountdownRanOut ==
    /\ LastHandler = "update"
    /\ countdown.timeleft = 0

\* s is a suffix of t
IsSuffix(s, t) == Len(s) <= Len(t) /\ s = SubSeq(t, Len(t) - Len(s) + 1, Len(t))

\* C6: in any step of update() the remaining thresholds are a suffix of what
\* they were (a threshold removed is never back), a flash window starts only
\* in a step that removes a threshold, and with no threshold left no flash
\* window starts.
ThresholdsFireOnce ==
    [][/\ IsSuffix(countdown'.flash_times, countdown.flash_times)
       /\ (countdown'.flash_start # None
              /\ countdown'.flash_start # countdown.flash_start)
          => Len(countdown'.flash_times) < Len(countdown.flash_times)
       /\ countdown.flash_times = <<>>
          => countdown'.flash_start \in {None, countdown.flash_start}
      ]_vars

\* The last threshold's flash window is running and the list is empty
ThresholdsExhausted ==
    /\ LastHandler = "update"
    /\ countdown.flash_times = <<>>
    /\ countdown.flash_start # None
    /\ Val(countdown.flash_start) > countdown.timeleft

\* C7: update(0) twice leaves the countdown (time left, thresholds, flash
\* start) as update(0) once leaves it, in every reachable countdown state.
UpdateZeroIdempotent ==
    CountdownUpdate(CountdownUpdate(countdown, 0), 0) = CountdownUpdate(countdown, 0)

\* update(0) on the fresh 5 s countdown opened a flash window and removed
\* thresholds, and nothing else was called since
UpdateZeroActed ==
    /\ LastHandler = "update"
    /\ countdown.timeleft = 5000
    /\ countdown.flash_start = Some(5000)
    /\ countdown.flash_times = <<4, 3, 2, 1>>

\* C8: after any sequence of add_command() calls the history holds at most
\* HISTORY_SIZE (50) entries and no two adjacent entries are equal;
\* add_command(cmd) puts cmd at the front, the older entries behind it,
\* unless cmd is the front entry, and then the history is unchanged.
HistoryBoundedNoRepeats ==
    [][/\ Len(history') <= HISTORY_SIZE
       /\ \A i \in 1..(Len(history') - 1) : history'[i] # history'[i + 1]
       /\ \A cmd \in HistoryCmds :
              AddCommandCall(cmd) =>
                  IF history # <<>> /\ history[1] = cmd
                  THEN history' = history
                  ELSE /\ Len(history') = Min(Len(history) + 1, HISTORY_SIZE)
                       /\ history'[1] = cmd
                       /\ \A i \in 2..Len(history') : history'[i] = history[i - 1]
      ]_vars

\* The history is full
HistoryFull ==
    /\ LastHandler = "add_command"
    /\ Len(history) = HISTORY_SIZE

\* navigate(True) k times
RECURSIVE NavigateUp(_, _)
NavigateUp(s, k) == IF k = 0 THEN s ELSE NavigateUp(navigate(s, TRUE), k - 1)

\* navigate(False) until the cursor is -1, at most n times
RECURSIVE NavigateDown(_, _)
NavigateDown(s, n) ==
    IF s.pos = -1 \/ n = 0 THEN s ELSE NavigateDown(navigate(s, FALSE), n - 1)

\* C9: from the cursor at -1, with any draft and any history, navigating up
\* k >= 1 times and then down until the cursor is -1 again leaves the input
\* line equal to the draft; navigating up from the oldest entry changes
\* neither the cursor nor the input line.
NavigationRestoresDraft ==
    pos = -1 =>
        /\ \A k \in 1..(Len(history) + 1) :
               /\ NavigateDown(NavigateUp(S, k), Len(history) + 1).pos = -1
               /\ NavigateDown(NavigateUp(S, k), Len(history) + 1).current_line
                      = current_line
        /\ navigate(NavigateUp(S, Len(history)), TRUE).pos
               = NavigateUp(S, Len(history)).pos
        /\ navigate(NavigateUp(S, Len(history)), TRUE).current_line
               = NavigateUp(S, Len(history)).current_line

\* The player navigated a full history and came back down to the draft
BackAtDraft ==
    /\ LastHandler = "navigate"
    /\ pos = -1
    /\ Len(history) = HISTORY_SIZE
    /\ current_line = <<"h">>
    /\ saved_line = Some(current_line)

\* A key press of the player
KeyPress == TypeChar \/ PressEnter \/ PressTab \/ PressCtrlC \/ PressOther

---------------------------------------------------------------------------
(* The data editor *)

\* The step is the Enter that hands the typed line to the data editor
EditorInputStep ==
    /\ current_program = Some(CmdHex)
    /\ Len(calls') >= 2
    /\ calls'[2] = <<"text_input", CmdHex>>

\* The step is a line the data editor rejected: the terminal reported
\* "Error: <reason>"
EditorRejectedStep ==
    /\ EditorInputStep
    /\ buf' # <<>>
    /\ buf'[1] # <<>>
    /\ buf'[1][1] = "Error: "

\* C11: when the data editor rejects a line as bad input (a column that is
\* not a number or is outside 0..5, a value that is not hexadecimal), its
\* state, row, column, reference table and edited table are what they were
\* before the call, and the terminal outputs one "Error: <reason>" line
\* after the echo of the input.
BadInputLeavesEditorUnchanged ==
    [][EditorRejectedStep =>
           /\ hex' = hex
           /\ Len(buf'[1]) = 2
           /\ SubSeq(buf', 3, Len(buf')) = buf]_vars

\* The state is the one the Enter that handed a line to the data editor
\* left behind
AfterEditorInput ==
    /\ Len(calls) >= 2
    /\ calls[1][1] = "on_keypress"
    /\ calls[2] = <<"text_input", CmdHex>>

\* The attempt is over: the editor reached the row count
AttemptOver == AfterEditorInput /\ hex.state = "FINISHED"

\* The terminal shows the editor's failure message and is frozen for the
\* penalty from now on
PenaltyApplied ==
    /\ buf # <<>>
    /\ buf[1] = <<failure_prefix, "corruption detected in system file, repairing!">>
    /\ freeze_start = Some(time)
    /\ freeze_time = Some(PROGRAM_FREEZE_TIME)

\* Rule (d) of the manual is broken in the first row: its first cell v is
\* below 7 and the cell in column v of the edited row is not zero
FirstRowRuleBroken ==
    /\ hex.generated[1][1] < 7
    /\ EndTable(hex)[1][hex.generated[1][1] + 1] # 0

\* C12: when the data editor reaches the row count with edits that break
\* the correctness rules (here rule (d) in the first row), the same
\* text_input call outputs the failure message and freezes the terminal for
\* 5000 ms, and the editor has exited without being completed.
FailedAttemptPenalised ==
    (AttemptOver /\ FirstRowRuleBroken)
        => (PenaltyApplied /\ exited(S, CmdHex) /\ ~completed(S, CmdHex))

\* A row of the generated table on which the rules expect no edit when the
\* row before it was not edited: first cell at least 7, no zero, and no more
\* than three cells at odd indices
NoEditRow(row) ==
    /\ row[1] >= 7
    /\ \A i \in 1..Len(row) : row[i] # 0
    /\ Cardinality({i \in 1..Len(row) : (i - 1) % 2 = 1}) <= 3

\* C13: when the player declines every row, so that no cell is overwritten,
\* the attempt succeeds if and only if every generated row is one on which
\* the rules expect no edit.
DecliningAllSucceedsIffNoEditRows ==
    (AttemptOver /\ hex.writes = 0)
        => (completed(S, CmdHex)
                <=> \A i \in 1..Len(hex.generated) : NoEditRow(hex.generated[i]))

\* Row i of the generated table expects no edit (the row before it, if any,
\* was left as generated) and the edited table differs from it
EditedNoEditRow(i) ==
    /\ NoEditRow(hex.generated[i])
    /\ i = 1 \/ EndTable(hex)[i - 1] = hex.generated[i - 1]
    /\ EndTable(hex)[i] # hex.generated[i]

\* C14: an attempt in which a row that expects no edit has a cell that
\* differs from the generated one fails: the editor is not completed and
\* the freeze penalty is applied.
EditedNoEditRowFails ==
    (AttemptOver /\ \E i \in 1..Len(hex.generated) : EditedNoEditRow(i))
        => (~completed(S, CmdHex) /\ PenaltyApplied)

\* C16: the reference table is what start() generated, whatever the player
\* overwrites in the edited table, until the next start().
ReferenceTableFixed == StartTable(hex) = hex.generated

\* C17: reaching the row count ends the attempt with a pass or with the
\* failure message and the freeze, the editor has exited, and the
\* correctness check raises no error that nothing handles.
AttemptEndsWithVerdict ==
    AttemptOver
        => /\ raised = None
           /\ exited(S, CmdHex)
           /\ completed(S, CmdHex) \/ PenaltyApplied

---------------------------------------------------------------------------
(* Control+C, the order of run() and the pause *)

\* C20: Control+C while the terminal is neither frozen nor rebooting and a
\* program is active: if the program permits the abort, its on_abort is
\* called, the active-program slot is cleared, the prompt-decorated input
\* line followed by "^C" is added to the scrollback and the input line is
\* emptied; if it does not, the slot, the programs' states, the input line
\* and the scrollback are unchanged and the program is not called.
CtrlCAbortsOnlyIfPermitted ==
    [][(PressCtrlC /\ freeze_time = None /\ ~rebooting /\ current_program # None) =>
          IF allow_ctrl_c(Val(current_program))
          THEN /\ calls' = <<<<"on_keypress", <<>>>>,
                             <<"on_abort", Val(current_program)>>>>
               /\ current_program' = None
               /\ buf' = <<get_current_line(S, TRUE) \o <<"^C">>>> \o buf
               /\ current_line' = <<>>
          ELSE /\ calls' = <<<<"on_keypress", <<>>>>>>
               /\ UNCHANGED <<current_program, prog_completed, prog_exited, hex,
                              current_line, buf>>
      ]_vars

\* Control+C aborted a program with a line typed into it
CtrlCAborted ==
    /\ calls = <<<<"on_keypress", <<>>>>, <<"on_abort", CmdB>>>>
    /\ current_program = None
    /\ buf[1] = <<"b", "^C">>
    /\ current_line = <<>>

\* The step is a call of Terminal.run()
RunStep == calls' # <<>> /\ calls'[1][1] = "run"

\* At the start of the tick the active program has exited, what is left of
\* the countdown is no more than the frame takes, and the freeze window is
\* over at the time the frame ends
TickOfEverything ==
    /\ RunStep
    /\ ~paused
    /\ current_program # None
    /\ exited(S, Val(current_program))
    /\ countdown.timeleft <= time' - time
    /\ freeze_time # None
    /\ time' > Val(freeze_start) + Val(freeze_time)

\* C18: run() handles the exited program, then the countdown, then the
\* freeze expiry, then the key repeat and then the program tick.  So a tick
\* that starts with an exited active program, a countdown of no more than
\* the frame time and an expired freeze window ends with the slot empty,
\* locked true and the freeze cleared, and has not run the tick of the
\* program it cleared.
TickClearsLocksUnfreezes ==
    [][TickOfEverything =>
          /\ current_program' = None
          /\ locked'
          /\ freeze_time' = None
          /\ freeze_start' = None
          /\ calls' = <<<<"run", <<>>>>>>
      ]_vars

\* The tick after a program failed in the first second of play and the game
\* stalled for six: the countdown's last two seconds and the five of the
\* freeze are over in one frame
TickedAfterFailure ==
    /\ calls = <<<<"run", <<>>>>>>
    /\ time = 34000
    /\ buf[1] = <<"failure: ", "software lock">>
    /\ current_program = None
    /\ locked
    /\ freeze_time = None
    /\ ended(countdown)

\* C19: while the game is paused, a call of run() leaves the countdown,
\* locked, the freeze window, the reboot queue, the scrollback, the input
\* line and the active-program slot as they are, repeats no held key and
\* runs no program tick.
PausedRunChangesNothing ==
    [][(paused /\ RunStep) =>
          /\ UNCHANGED <<time, countdown, locked, freeze_start, freeze_time,
                         rebooting, reboot_update_time, reboot_buf, buf,
                         current_line, current_program, held_key,
                         key_last_repeat, prog_completed, prog_exited, hex>>
          /\ calls' = <<<<"run", <<>>>>>>
      ]_vars

\* run() was called while the game was paused with a key held down and a
\* program active
PausedRunWithKeyHeld ==
    /\ paused
    /\ calls = <<<<"run", <<>>>>>>
    /\ held_key # None
    /\ current_program = Some(CmdB)
    /\ ~ended(countdown)

---------------------------------------------------------------------------
(* Tab completion *)

\* The registered command names and "help" that start with the input line
Candidates == {c \in Programs \cup {CmdHelp} : StartsWith(c, current_line)}

\* The longest line every candidate starts with
LongestCommonStart ==
    CHOOSE p \in UNION {{SubSeq(c, 1, n) : n \in 0..Len(c)} : c \in Candidates} :
        /\ \A c \in Candidates : StartsWith(c, p)
        /\ \A c \in Candidates : Len(c) > Len(p) =>
               \E d \in Candidates : ~StartsWith(d, SubSeq(c, 1, Len(p) + 1))

\* command c stands in the line at some position
Occurs(c, line) ==
    \E i \in 1..Len(line) : StartsWith(SubSeq(line, i, Len(line)), c)

\* The line lists the candidates and nothing else
ListsCandidates(line) ==
    /\ \A c \in Candidates : Occurs(c, line)
    /\ Cardinality({i \in 1..Len(line) : line[i] = "  "}) = Cardinality(Candidates) - 1
    /\ Len(line) = Len(Join(Matching(LevelPrograms \o <<CmdHelp>>, current_line), "  "))

\* C21: Tab with no program active (and the terminal neither frozen nor
\* rebooting): the candidates are the registered commands and "help" that
\* start with the input line.  One candidate replaces the input line;
\* several replace it with the longest start they share when that is not
\* the input line already, and otherwise leave it and output the prompt
\* line and the list of candidates; no candidate changes nothing.  With
\* a program active, Tab changes neither the input line nor the scrollback.
TabCompletesOrLists ==
    [][(PressTab /\ freeze_time = None /\ ~rebooting) =>
          IF current_program # None
          THEN UNCHANGED <<current_line, buf>>
          ELSE IF Cardinality(Candidates) = 1
          THEN current_line' \in Candidates /\ UNCHANGED buf
          ELSE IF Cardinality(Candidates) = 0
          THEN UNCHANGED <<current_line, buf>>
          ELSE IF LongestCommonStart # current_line
          THEN current_line' = LongestCommonStart /\ UNCHANGED buf
          ELSE /\ UNCHANGED current_line
               /\ Len(buf') = Len(buf) + 2
               /\ SubSeq(buf', 3, Len(buf')) = buf
               /\ buf'[2] = PROMPT \o current_line
               /\ ListsCandidates(buf'[1])
      ]_vars

\* Tab on "h" completed the line to "he", and Tab on "he" listed the two
\* commands that start with it
TabListedAfterCompleting ==
    /\ calls = <<<<"on_keypress", <<>>>>>>
    /\ current_line = <<"h", "e">>
    /\ Len(buf) = 30
    /\ buf[2] = <<"$ ", "h", "e">>
    /\ buf[1] = <<"h", "e", "  ", "h", "e", "l", "p">>

---------------------------------------------------------------------------
(* Reboot *)

\* C22: every call of reboot(), with a message or without, whatever the
\* terminal is doing (an earlier reboot may still be playing), clears the
\* scrollback; and when the playback completes (rebooting becomes false)
\* the scrollback holds the visible lines less the input line, 28 lines,
\* the newest of them the "Type 'help' to list available commands" line.
RebootFillsTheScreen ==
    [][/\ (calls' # <<>> /\ calls'[1][1] = "reboot" /\ calls' # calls)
           => buf' = <<>>
       /\ (rebooting /\ ~rebooting')
           => /\ Len(buf') = VISIBLE_LINES - 1
              /\ buf'[1] = <<"Type 'help' to list available commands">>
      ]_vars

---------------------------------------------------------------------------
(* Commands that are turned down *)

\* The arguments of the reserved command the player typed
TypedArgs == Tail(Split(CommandLine))

\* The command line is one the terminal must turn down with a report: a
\* command with an unmet prerequisite, "colour" with other than three
\* arguments or with an argument that is no integer, "freeze" with an
\* argument that is no integer, or a command nobody knows
TurnedDown ==
    \/ CommandLine \in Programs /\ Unmet(CommandLine) # {}
    \/ /\ StartsWith(CommandLine, CmdColour)
       /\ Len(TypedArgs) # 3 \/ \E i \in 1..Len(TypedArgs) : ~IsInt(TypedArgs[i])
    \/ StartsWith(CommandLine, CmdFreeze) /\ ~IsInt(TypedArgs[1])
    \/ /\ CommandLine # <<>>
       /\ CommandLine \notin Programs \cup {CmdHelp, <<"?">>}
       /\ ~StartsWith(CommandLine, CmdColour)
       /\ ~StartsWith(CommandLine, CmdFreeze)

\* C23: with no program active, Enter on a command that is blocked by a
\* prerequisite, is unknown, or is "colour" or "freeze" with malformed
\* arguments adds the echo of the line and at least one report line to the
\* scrollback, and starts or activates no program and leaves the
\* countdown, the freeze window and the text colour alone.
TurnedDownCommandReported ==
    [][(PressEnter /\ freeze_time = None /\ ~rebooting /\ current_program = None
           /\ TurnedDown) =>
          /\ Len(buf') >= Len(buf) + 2
          /\ buf'[Len(buf') - Len(buf)] = PROMPT \o current_line
          /\ StartsIn(calls') = 0
          /\ UNCHANGED <<current_program, prog_completed, prog_exited, hex,
                         countdown, freeze_start, freeze_time, text_colour>>
      ]_vars

---------------------------------------------------------------------------
(* The data editor's transitions *)

\* The line text_input works on: the typed line without leading blanks, in
\* lower case
EditorLine == Lower(LStrip(current_line))

\* Where a step that moved to row lands: the row query, or the end of the
\* attempt when the row is the row count
Landing(row) == IF row = Len(hex.start_data) THEN "FINISHED" ELSE "QUERY_ROW"

\* The step leaves the rows as they were but for the cell at the current
\* row and column, which holds the value typed
OverwritesCurrentCell ==
    /\ hex'.writes = hex.writes + 1
    /\ hex'.rows = [hex.rows EXCEPT ![hex.end_data[hex.row + 1]][hex.col + 1] =
                                         ParseHexInt(EditorLine)]

\* One of the editor's transitions, by the state it starts in and the line
EditorTransition ==
    \/ /\ hex.state = "QUERY_ROW"
       /\ StartsWith(EditorLine, <<"y">>)
       /\ hex'.state = "ENTER_COL"
       /\ hex'.row = hex.row
       /\ hex'.rows = hex.rows
    \/ /\ hex.state = "QUERY_ROW"
       /\ ~StartsWith(EditorLine, <<"y">>)
       /\ hex'.row = hex.row + 1
       /\ hex'.state = Landing(hex.row + 1)
       /\ hex'.rows = hex.rows
    \/ /\ hex.state = "ENTER_COL"
       /\ IsInt(EditorLine)
       /\ ParseInt(EditorLine) \in 0..(LINE_LENGTH - 1)
       /\ hex'.state = "ENTER_VAL"
       /\ hex'.row = hex.row
       /\ hex'.rows = hex.rows
    \/ /\ hex.state = "ENTER_VAL"
       /\ EditorLine = <<>>
       /\ hex'.state = "QUERY_ROW"
       /\ hex'.row = hex.row
       /\ hex'.rows = hex.rows
    \/ /\ hex.state = "ENTER_VAL"
       /\ IsHexInt(EditorLine)
       /\ hex'.row = hex.row + 1
       /\ hex'.state = Landing(hex.row + 1)
       /\ OverwritesCurrentCell

\* C24: after start(), the data editor's state and row change only by a
\* line handed to text_input, and then only along: row query to column
\* entry on a line starting with y (same row); row query to row query of
\* the next row on any other line; column entry to value entry on a column
\* in range; value entry to row query of the same row on an empty line;
\* value entry to row query of the next row on a hexadecimal value, with
\* exactly one cell of the current row overwritten.  A step to the next row
\* lands in FINISHED exactly when the new row is the row count; the row
\* never decreases and never exceeds the row count.
EditorFollowsTransitions ==
    [][/\ EditorInputStep =>
              \/ EditorTransition
              \/ EditorRejectedStep /\ hex'.state = hex.state /\ hex'.row = hex.row
       /\ ~EditorInputStep => (hex'.state = hex.state /\ hex'.row = hex.row)
       /\ hex'.row >= hex.row
       /\ hex'.row <= Len(hex'.start_data)
       /\ (hex'.state = "FINISHED") <=> (hex'.row = Len(hex'.start_data)
                                           /\ hex'.start_data # <<>>)
      ]_vars

\* The attempt ended on a value typed into the last row, with an earlier
\* row left as generated
FinishedByOverwrite ==
    /\ AttemptOver
    /\ hex.writes >= 1
    /\ hex.rows[hex.end_data[Len(hex.end_data)]] # hex.generated[Len(hex.end_data)]
    /\ \E i \in 1..(Len(hex.end_data) - 1) :
           hex.rows[hex.end_data[i]] = hex.generated[i]

---------------------------------------------------------------------------
(* Input while a program is active *)

\* Enter would submit a line: keys are not ignored, they are not routed to
\* the program, and the line with its prompt is not empty
EnterSubmits ==
    /\ ~input_ignored(S)
    /\ ~is_graphical(Val(current_program))
    /\ ~intercept_keypress(Val(current_program))
    /\ get_current_line(S, TRUE) # <<>>

\* The step is a call of on_keypress
KeyPressStep == calls' # <<>> /\ calls'[1][1] = "on_keypress"

\* The step is a press of Up or Down
PressArrow ==
    \E key \in {K_UP, K_DOWN}, outcome \in Outcomes : KeyDown(key, FALSE, outcome)

\* C25: while a program is active, a line submitted with Enter is handed to
\* that program's text_input and is not taken for a command: no program is
\* started, the history gains no entry and the active-program slot holds
\* the same program; Up and Down leave the input line as it is.
ActiveProgramTakesInput ==
    [][current_program # None =>
           /\ (KeyPressStep /\ PressEnter) =>
                  /\ StartsIn(calls') = 0
                  /\ current_program' = current_program
                  /\ history' = history
                  /\ EnterSubmits =>
                         /\ Len(calls') >= 2
                         /\ calls'[2] = <<"text_input", Val(current_program)>>
                         /\ buf' # buf
           /\ (KeyPressStep /\ PressArrow) =>
                  UNCHANGED <<current_line, pos, saved_line, current_program>>
      ]_vars

\* Program b took the line "a" while a was in the history and not completed
ProgramTookCommandLine ==
    /\ current_program = Some(CmdB)
    /\ Len(calls) >= 2
    /\ calls[1][1] = "on_keypress"
    /\ calls[2] = <<"text_input", CmdB>>
    /\ buf[1] = CmdA \/ (Len(buf) >= 2 /\ buf[2] = CmdA)
    /\ ~prog_completed[CmdA]

---------------------------------------------------------------------------
(* Restarting the data editor *)

\* The step calls the data editor's start()
EditorStartStep == StartsOf(calls', CmdHex) = 1

\* C26: every start() of the data editor, whatever state the attempt
\* before it was left in, sets row 0, column 0 and the row query, generates
\* a reference table and makes the edited table equal to it, so that
\* exited() is false right after; the completed flag is not changed.
StartResetsEditor ==
    [][EditorStartStep =>
           /\ hex'.row = 0
           /\ hex'.col = 0
           /\ hex'.state = "QUERY_ROW"
           /\ hex'.rows = HexTables[random]
           /\ hex'.start_data = [i \in 1..Len(HexTables[random]) |-> i]
           /\ hex'.end_data = hex'.start_data
           /\ ~(exited(S, CmdHex))'
           /\ hex'.completed = hex.completed
      ]_vars

\* The editor was started again after an attempt that had overwritten a
\* cell and was aborted while it asked for a value
RestartedAfterAbort ==
    /\ LastHandler = "on_keypress"
    /\ StartsOf(calls, CmdHex) = 1
    /\ hex.row = 0
    /\ \E i \in 1..Len(buf) :
           /\ Len(buf[i]) = 4
           /\ buf[i][1] = "Change "
           /\ buf[i][4] = "^C"
    /\ \E i \in 1..Len(buf) :
           /\ Len(buf[i]) = 4
           /\ buf[i][1] = "Change "
           /\ buf[i][4] = "f"

---------------------------------------------------------------------------
(* The freeze window *)

\* The time at which the freeze window is used up
FreezeDeadline == Val(freeze_start) + Val(freeze_time)

\* While the terminal is frozen nothing but a tick after the deadline
\* changes the window, and that tick removes both of its fields
FreezeHoldsUntilDeadline ==
    /\ (RunStep /\ ~paused /\ time' > FreezeDeadline)
           => (freeze_time' = None /\ freeze_start' = None)
    /\ ~(RunStep /\ ~paused /\ time' > FreezeDeadline)
           => UNCHANGED <<freeze_start, freeze_time>>

\* The freeze window has both of its fields or neither
FreezeFieldsTogether == (freeze_start = None) <=> (freeze_time = None)

\* The input line a tick leaves behind when it ends the freeze: empty, or
\* the one character of the held key the same run() repeats after it has
\* reset the line
LineAfterUnfreeze ==
    IF held_key # None /\ Accepted(Val(held_key)[1].unicode)
          /\ Val(held_key)[1].key # "K_BACKSPACE"
    THEN {<<>>, Val(held_key)[1].unicode}
    ELSE {<<>>}

\* C27 as stated: after freeze(d) at time t the terminal stays frozen
\* through every tick with a clock of at most t + d; the first tick that is
\* not paused with a clock above t + d removes the start and the duration
\* of the freeze and leaves the input line empty; so with ticks that are
\* not paused every freeze ends.  The start and the duration are always
\* both present or both absent.
FreezeEndsWithEmptyLine ==
    /\ [][freeze_time # None =>
              /\ FreezeHoldsUntilDeadline
              /\ freeze_time' = None => current_line' = <<>>]_vars
    /\ []FreezeFieldsTogether
    /\ (freeze_time # None) ~> (freeze_time = None)

\* C27, amended: as above, but the tick that ends the freeze empties the
\* input line and then repeats a held key, so the line it leaves is empty
\* or is the one repeated character.
FreezeEndsWithLineReset ==
    /\ [][freeze_time # None =>
              /\ FreezeHoldsUntilDeadline
              /\ freeze_time' = None => current_line' \in LineAfterUnfreeze]_vars
    /\ []FreezeFieldsTogether
    /\ (freeze_time # None) ~> (freeze_time = None)

\* A tick ended the freeze of a failed program while a key was held, and
\* left the repeated character in the input line
FreezeEndedKeyHeld ==
    /\ LastHandler = "run"
    /\ freeze_time = None
    /\ freeze_start = None
    /\ buf[1] = <<"failure: ", "software lock">>
    /\ held_key # None
    /\ current_line # <<>>
    /\ time > 28000 + PROGRAM_FREEZE_TIME

---------------------------------------------------------------------------
(* Key repeat *)

\* The tick repeats the held key: it records the time of the repeat
RepeatFires == RunStep /\ key_last_repeat' = Some(time')

\* The input line after the held key is handled once more
LineWithKeyAgain ==
    IF Val(held_key)[1].key = "K_BACKSPACE"
    THEN SubSeq(current_line, 1, Len(current_line) - 1)
    ELSE current_line \o Val(held_key)[1].unicode

\* The keys that are not to be repeated
Unrepeatable == {"K_RETURN", "K_KP_ENTER", "K_TAB", "K_UP", "K_DOWN"}

\* C28: a repeatable key pressed at time t and held is not repeated by a
\* tick while clock - t <= 500 ms, is repeated by the first tick with
\* clock - t > 500 ms, and after that by a tick only when more than 50 ms
\* have passed since the repeat before; a tick repeats it at most once, and
\* no tick repeats it after on_keyrelease().  Return, Tab, Up and Down are
\* never repeated.
KeyRepeatsAfterDelays ==
    [][/\ (RunStep /\ held_key # None /\ key_last_repeat = None) =>
              (RepeatFires <=> time' - Val(held_key)[2] > KEY_REPEAT_INITIAL_DELAY)
       /\ (RunStep /\ held_key # None /\ key_last_repeat # None) =>
              (RepeatFires <=> time' - Val(key_last_repeat) > KEY_REPEAT_DELAY)
       /\ (RunStep /\ held_key # None /\ current_program = None
              /\ freeze_time = None) =>
              current_line' = IF RepeatFires THEN LineWithKeyAgain ELSE current_line
       /\ (RunStep /\ held_key = None) =>
              (~RepeatFires /\ held_key' = None
                 /\ (current_program = None => current_line' = current_line))
       /\ (calls' = <<<<"on_keyrelease", <<>>>>>>) =>
              (held_key' = None /\ key_last_repeat' = None)
       /\ held_key' # None => Val(held_key')[1].key \notin Unrepeatable
      ]_vars

\* The held key "a" was repeated at 550 ms and, after a tick 50 ms later
\* that did not repeat it, again at 650 ms
RepeatedTwice ==
    /\ LastHandler = "run"
    /\ current_line = <<"a", "a", "a">>
    /\ held_key # None
    /\ key_last_repeat = Some(time)
    /\ time = 7000 + 650

---------------------------------------------------------------------------
(* Dependencies of the active program *)

\* The program in the slot has all its prerequisites completed
ActiveProgramUnblocked ==
    current_program # None =>
        \A d \in Prerequisites(Val(current_program)) : completed(S, d)

\* C29: whenever a program is in the active-program slot, every command it
\* depends on reports completed(), whatever the order of commands, aborts,
\* exits and ticks before; and a program that has completed stays
\* completed.
ActiveProgramHasPrerequisites ==
    /\ []ActiveProgramUnblocked
    /\ [][\A c \in Programs : completed(S, c) => completed(S, c)']_vars

\* The program that depends on a and b is active, after b completed and
\* was aborted before the tick that would have cleared it
DependentProgramActive ==
    /\ current_program = Some(CmdHe)
    /\ \E i \in 1..Len(buf) : buf[i] = <<"^C">>

---------------------------------------------------------------------------
(* The end screens *)

\* C30: the host makes at most one end-screen transition in a call of
\* GameplayState.run: no call ends with the terminal both locked and
\* completed, so that the lost screen is pushed and the success screen
\* replaces a state in the same call.
OneEndScreenPerFrame == ~(LostPushed /\ SuccessReplaced)

---------------------------------------------------------------------------
(* Key repeat of a key pressed over a held key *)

\* The held key was set by the tick's own repeat: on_keypress, called by the
\* repeat, took the clock of that repeat as the start of the held key.  A
\* key the player pressed at a later clock is a new press.
HeldSinceRepeat ==
    key_last_repeat # None /\ Val(held_key)[2] = Val(key_last_repeat)

\* C31: a tick repeats a newly pressed key for the first time only when
\* more than 500 ms have passed since its own press, also when the key was
\* pressed while another held key was repeating and no key was released in
\* between; only a key that the tick repeated before is repeated after the
\* short delay of 50 ms.
NewPressWaitsInitialDelay ==
    [][(RunStep /\ held_key # None /\ ~HeldSinceRepeat /\ RepeatFires) =>
           time' - Val(held_key)[2] > KEY_REPEAT_INITIAL_DELAY
      ]_vars

===========================================================================
